---- MODULE Spec2Model ----
(***************************************************************************)
(* Model of the Mylo free-text pipeline (src/utils/messageHandler.ts) and  *)
(* of the earnings aggregation engine (EarningsService in                  *)
(* src/services/airtable.ts).                                              *)
(*                                                                         *)
(* Text is a sequence of one-character strings, so that the regular        *)
(* expressions, trims, case conversions and substring tests of the source  *)
(* are computed character by character.  Amounts are integers counting     *)
(* thousandths (1.5 is 1500), so that rounding to two decimals is visible. *)
(***************************************************************************)
EXTENDS Integers, Sequences, FiniteSets, TLC

\* ------------------------------------------------------------------------
\* Characters and JavaScript string primitives
\* ------------------------------------------------------------------------

\* upper-case letters, index-aligned with LowerLetters
UpperLetters ==
  <<"A","B","C","D","E","F","G","H","I","J","K","L","M",
    "N","O","P","Q","R","S","T","U","V","W","X","Y","Z">>

\* lower-case letters, index-aligned with UpperLetters
LowerLetters ==
  <<"a","b","c","d","e","f","g","h","i","j","k","l","m",
    "n","o","p","q","r","s","t","u","v","w","x","y","z">>

\* decimal digits, Digits[i] is the digit of value i - 1
Digits ==
  <<"0","1","2","3","4","5","6","7","8","9">>

\* the value JavaScript calls undefined (an absent field, an absent month);
\* a one-element sequence no text equals, text being made of single characters
Undefined ==
  <<"undefined">>

\* the value JavaScript calls null
Null ==
  <<"null">>

\* \s of a regular expression and the characters String.prototype.trim removes
IsSpace(c) ==
  c \in {" ", "\n", "\t"}

\* what "." of a regular expression matches (no "s" flag): anything but a line end
IsDot(c) ==
  c # "\n"

\* one character of String.prototype.toLowerCase
LowerChar(c) ==
  IF \E i \in 1..26 : UpperLetters[i] = c
  THEN LowerLetters[CHOOSE i \in 1..26 : UpperLetters[i] = c]
  ELSE c

\* one character of String.prototype.toUpperCase
UpperChar(c) ==
  IF \E i \in 1..26 : LowerLetters[i] = c
  THEN UpperLetters[CHOOSE i \in 1..26 : LowerLetters[i] = c]
  ELSE c

\* String.prototype.toLowerCase
toLowerCase(s) ==
  [i \in 1..Len(s) |-> LowerChar(s[i])]

\* String.prototype.toUpperCase
toUpperCase(s) ==
  [i \in 1..Len(s) |-> UpperChar(s[i])]

\* s.slice(i - 1): the characters of s from position i (1-based) to the end
From(s, i) ==
  IF i > Len(s) THEN << >> ELSE SubSeq(s, i, Len(s))

\* the literal lit occurs in s at position i
MatchAt(s, i, lit) ==
  /\ i >= 1
  /\ i + Len(lit) - 1 <= Len(s)
  /\ \A k \in 1..Len(lit) : s[i + k - 1] = lit[k]

\* the lower-case literal lit occurs in s at position i under the "i" flag
MatchAtCI(s, i, lit) ==
  /\ i >= 1
  /\ i + Len(lit) - 1 <= Len(s)
  /\ \A k \in 1..Len(lit) : LowerChar(s[i + k - 1]) = lit[k]

\* String.prototype.includes
includes(s, sub) ==
  \E i \in 1..(Len(s) + 1) : MatchAt(s, i, sub)

\* the position after a greedy \s* that starts at position i
SkipSpaces(s, i) ==
  IF \E j \in i..Len(s) : ~IsSpace(s[j])
  THEN CHOOSE j \in i..Len(s) :
         /\ ~IsSpace(s[j])
         /\ \A k \in i..(j - 1) : IsSpace(s[k])
  ELSE IF i > Len(s) THEN i ELSE Len(s) + 1

\* the position after a greedy [,\s]* that starts at position i
SkipCommaSpaces(s, i) ==
  IF \E j \in i..Len(s) : ~(IsSpace(s[j]) \/ s[j] = ",")
  THEN CHOOSE j \in i..Len(s) :
         /\ ~(IsSpace(s[j]) \/ s[j] = ",")
         /\ \A k \in i..(j - 1) : IsSpace(s[k]) \/ s[k] = ","
  ELSE IF i > Len(s) THEN i ELSE Len(s) + 1

\* String.prototype.trim
trim(s) ==
  IF \A j \in 1..Len(s) : IsSpace(s[j])
  THEN << >>
  ELSE LET a == SkipSpaces(s, 1)
           b == CHOOSE j \in 1..Len(s) :
                  /\ ~IsSpace(s[j])
                  /\ \A k \in (j + 1)..Len(s) : IsSpace(s[k])
       IN SubSeq(s, a, b)

\* s.replace(/^@/, "")
stripAt(s) ==
  IF Len(s) >= 1 /\ s[1] = "@" THEN Tail(s) ELSE s

\* Array.prototype.join(",") on an array of strings
RECURSIVE join(_)
join(a) ==
  IF Len(a) = 0 THEN << >>
  ELSE IF Len(a) = 1 THEN a[1]
  ELSE a[1] \o <<",">> \o join(Tail(a))

\* ------------------------------------------------------------------------
\* Free-text intent pipeline: trigger stripping and parameter extraction
\* ------------------------------------------------------------------------

\* Math.min
Min(a, b) ==
  IF a <= b THEN a ELSE b

\* the activation phrase of /^hey mylo[,\s]*/i
heyMylo ==
  <<"h","e","y"," ","m","y","l","o">>

\* replaceTrigger with /^hey mylo\s*/i: a comma after the phrase is kept
replaceTrigger_spacesOnly(s) ==
  IF MatchAtCI(s, 1, heyMylo)
  THEN From(s, SkipSpaces(s, Len(heyMylo) + 1))
  ELSE s

\* text.replace(/^hey mylo[,\s]*/i, "")
replaceTrigger(s) ==
  IF MatchAtCI(s, 1, heyMylo)
  THEN From(s, SkipCommaSpaces(s, Len(heyMylo) + 1))
  ELSE s

\* the position right after the words ws matched from position i, every word
\* but the last followed by a greedy \s+ and the last by at least one space;
\* 0 when they do not match
RECURSIVE WordsEnd(_, _, _)
WordsEnd(s, i, ws) ==
  LET m == i + Len(ws[1])
  IN IF MatchAtCI(s, i, ws[1]) /\ m <= Len(s) /\ IsSpace(s[m])
     THEN IF Len(ws) = 1 THEN m ELSE WordsEnd(s, SkipSpaces(s, m), Tail(ws))
     ELSE 0

\* the position right after the first alternative of kws matching at i and
\* followed by at least one space; 0 when none does
RECURSIVE KeywordEnd(_, _, _)
KeywordEnd(s, i, kws) ==
  IF Len(kws) = 0 THEN 0
  ELSE IF WordsEnd(s, i, <<kws[1]>>) # 0 THEN WordsEnd(s, i, <<kws[1]>>)
  ELSE KeywordEnd(s, i, Tail(kws))

\* (.+)$ can start at position c: at least one character, none a line end
CaptureAt(s, c) ==
  /\ c >= 1
  /\ c <= Len(s)
  /\ \A j \in c..Len(s) : IsDot(s[j])

\* a greedy \s+ that started at position m (a space) and is followed by
\* (.+)$: the capture starts after all the spaces, or on the last character
\* when the spaces run to the end of the text
AfterSpaces(s, m) ==
  Min(SkipSpaces(s, m), Len(s))

\* (?:kws)\s+(?:mid\s+)?(.+)$ matched from position p: where the capture
\* starts, 0 when there is no match.  The optional group is taken when the
\* rest then matches, skipped otherwise.
TemplateFrom(s, p, kws, mid) ==
  LET k == KeywordEnd(s, p, kws)
      q == IF k = 0 THEN 0 ELSE SkipSpaces(s, k)
      m == IF k = 0 THEN 0 ELSE WordsEnd(s, q, mid)
  IN IF k = 0 THEN 0
     ELSE IF m # 0 /\ AfterSpaces(s, m) > m /\ CaptureAt(s, AfterSpaces(s, m))
          THEN AfterSpaces(s, m)
     ELSE IF AfterSpaces(s, k) > k /\ CaptureAt(s, AfterSpaces(s, k))
          THEN AfterSpaces(s, k)
     ELSE 0

\* ^(?:pre\s+)?(?:kws)\s+(?:mid\s+)?(.+)$ under the "i" flag: where the
\* capture starts, 0 when the template does not match
Template(s, pre, kws, mid) ==
  LET e == WordsEnd(s, 1, pre)
      withPre == IF e = 0 THEN 0 ELSE TemplateFrom(s, SkipSpaces(s, e), kws, mid)
  IN IF withPre # 0 THEN withPre ELSE TemplateFrom(s, 1, kws, mid)

\* the four specific templates of searchPatterns, in the order of the source
searchPatterns ==
  << [pre |-> << <<"c","a","n"," ","y","o","u">> >>, kws |-> << <<"s","e","a","r","c","h">>, <<"f","i","n","d">>, <<"l","o","o","k">> >>,
      mid |-> << <<"f","o","r">> >>],
     [pre |-> << <<"p","l","e","a","s","e">> >>, kws |-> << <<"s","e","a","r","c","h">>, <<"f","i","n","d">>, <<"l","o","o","k">> >>,
      mid |-> << <<"f","o","r">> >>],
     [pre |-> << <<"i">> >>, kws |-> << <<"n","e","e","d">>, <<"w","a","n","t">> >>,
      mid |-> << <<"t","o">>, <<"f","i","n","d">> >>],
     [pre |-> << <<"h","e","l","p">>, <<"m","e">> >>, kws |-> << <<"f","i","n","d">>, <<"s","e","a","r","c","h">> >>,
      mid |-> << <<"f","o","r">> >> ] >>

\* where the capture of the n-th specific template starts in s, 0 when it
\* does not match
searchPatternAt(s, n) ==
  Template(s, searchPatterns[n].pre, searchPatterns[n].kws, searchPatterns[n].mid)

\* firstSearchMatch with the catch-all tried first: the longest capture wins
RECURSIVE firstSearchMatch_catchAllFirst(_, _)
firstSearchMatch_catchAllFirst(s, n) ==
  IF CaptureAt(s, 1) THEN trim(s) ELSE s

\* the loop over searchPatterns from the n-th pattern on: the trimmed capture
\* of the first pattern that matches; the fifth pattern is /^(.+)$/; the
\* whole text when no pattern matches
RECURSIVE firstSearchMatch(_, _)
firstSearchMatch(s, n) ==
  IF n <= Len(searchPatterns)
  THEN IF searchPatternAt(s, n) # 0
       THEN trim(From(s, searchPatternAt(s, n)))
       ELSE firstSearchMatch(s, n + 1)
  ELSE IF CaptureAt(s, 1) THEN trim(s)
  ELSE s

\* originalText || messageText
orElse(a, b) ==
  IF a = << >> THEN b ELSE a

\* extractSearchQuery without the catch-all: no phrase when no specific
\* template matches
extractSearchQuery_noFallback(messageText, originalText) ==
  LET withoutTrigger == trim(replaceTrigger(orElse(originalText, messageText)))
  IN IF withoutTrigger = << >> THEN Null
     ELSE IF \A n \in 1..Len(searchPatterns) : searchPatternAt(withoutTrigger, n) = 0
     THEN Null
     ELSE firstSearchMatch(withoutTrigger, 1)

\* extractSearchQuery: the search phrase, Null when nothing follows the trigger
extractSearchQuery(messageText, originalText) ==
  LET withoutTrigger == trim(replaceTrigger(orElse(originalText, messageText)))
  IN IF withoutTrigger = << >> THEN Null
     ELSE firstSearchMatch(withoutTrigger, 1)


\* (?:have )?i (?:earned|made) matched at position j
haveIEarned(w, j) ==
  LET iEarned(p) == /\ MatchAtCI(w, p, <<"i"," ">>)
                    /\ \/ MatchAtCI(w, p + 2, <<"e","a","r","n","e","d">>)
                       \/ MatchAtCI(w, p + 2, <<"m","a","d","e">>)
  IN \/ MatchAtCI(w, j, <<"h","a","v","e"," ">>) /\ iEarned(j + 5)
     \/ iEarned(j)

\* earningsPatterns.some(pattern => pattern.test(w))
isEarningsQuery(w) ==
  \E i \in 1..Len(w) :
    \/ MatchAtCI(w, i, <<"h","o","w"," ","m","u","c","h"," ">>) /\ haveIEarned(w, i + 9)
    \/ MatchAtCI(w, i, <<"m","y"," ","e","a","r","n","i","n","g","s">>)
    \/ MatchAtCI(w, i, <<"w","h","a","t"," ">>) /\ haveIEarned(w, i + 5)
    \/ MatchAtCI(w, i, <<"t","o","t","a","l"," ","e","a","r","n","i","n","g","s">>)

\* the alternation of the twelve month names of monthPatterns
monthNames ==
  << <<"j","a","n","u","a","r","y">>, <<"f","e","b","r","u","a","r","y">>, <<"m","a","r","c","h">>, <<"a","p","r","i","l">>, <<"m","a","y">>, <<"j","u","n","e">>,
     <<"j","u","l","y">>, <<"a","u","g","u","s","t">>, <<"s","e","p","t","e","m","b","e","r">>, <<"o","c","t","o","b","e","r">>, <<"n","o","v","e","m","b","e","r">>,
     <<"d","e","c","e","m","b","e","r">> >>

\* the words that precede the month in the three monthPatterns, in order
monthPrepositions ==
  << <<"i","n"," ">>, <<"f","o","r"," ">>, <<"d","u","r","i","n","g"," ">> >>

\* the n-th month pattern matches w at position i
monthPatternAt(w, n, i) ==
  /\ MatchAtCI(w, i, monthPrepositions[n])
  /\ \E k \in 1..Len(monthNames) :
       MatchAtCI(w, i + Len(monthPrepositions[n]), monthNames[k])

\* match[1] of the n-th month pattern: the month text at the leftmost match
monthCapture(w, n) ==
  LET i == CHOOSE p \in 1..Len(w) :
             /\ monthPatternAt(w, n, p)
             /\ \A r \in 1..(p - 1) : ~monthPatternAt(w, n, r)
      c == i + Len(monthPrepositions[n])
      k == CHOOSE x \in 1..Len(monthNames) : MatchAtCI(w, c, monthNames[x])
  IN SubSeq(w, c, c + Len(monthNames[k]) - 1)

\* firstMonthMatch with the first pattern only: a month after "for" or
\* "during" is not seen
RECURSIVE firstMonthMatch_inOnly(_, _)
firstMonthMatch_inOnly(w, n) ==
  IF \E p \in 1..Len(w) : monthPatternAt(w, 1, p) THEN monthCapture(w, 1)
  ELSE Undefined

\* the loop over monthPatterns from the n-th pattern on
RECURSIVE firstMonthMatch(_, _)
firstMonthMatch(w, n) ==
  IF n > Len(monthPrepositions) THEN Undefined
  ELSE IF \E p \in 1..Len(w) : monthPatternAt(w, n, p) THEN monthCapture(w, n)
  ELSE firstMonthMatch(w, n + 1)

\* extractEarningsQuery with the precedence reversed: a text that matches a
\* specific search template is no earnings query
extractEarningsQuery_searchFirst(messageText, originalText) ==
  LET textToProcess == toLowerCase(orElse(originalText, messageText))
      withoutTrigger == trim(replaceTrigger(textToProcess))
  IN IF \/ ~isEarningsQuery(withoutTrigger)
        \/ \E n \in 1..Len(searchPatterns) : searchPatternAt(withoutTrigger, n) # 0
     THEN [isNull |-> TRUE, month |-> Undefined]
     ELSE [isNull |-> FALSE, month |-> firstMonthMatch(withoutTrigger, 1)]

\* extractEarningsQuery: isNull when the text is no earnings query (the
\* source returns null), else the query with its month (Undefined when no
\* month is mentioned)
extractEarningsQuery(messageText, originalText) ==
  LET textToProcess == toLowerCase(orElse(originalText, messageText))
      withoutTrigger == trim(replaceTrigger(textToProcess))
  IN IF ~isEarningsQuery(withoutTrigger)
     THEN [isNull |-> TRUE, month |-> Undefined]
     ELSE [isNull |-> FALSE, month |-> firstMonthMatch(withoutTrigger, 1)]


\* ------------------------------------------------------------------------
\* Airtable field values (AirtableFieldValueSchema) and their conversions
\* ------------------------------------------------------------------------

\* a field the record does not have (or null)
VNone ==
  [t |-> "none", n |-> 0, s |-> << >>, a |-> << >>]

\* a number field, in thousandths
VNum(n) ==
  [t |-> "num", n |-> n, s |-> << >>, a |-> << >>]

\* a string field
VStr(s) ==
  [t |-> "str", n |-> 0, s |-> s, a |-> << >>]

\* a field holding an array of strings
VArr(a) ==
  [t |-> "arr", n |-> 0, s |-> << >>, a |-> a]

\* a boolean field; n is 1 for true
VBool(b) ==
  [t |-> "bool", n |-> IF b THEN 1 ELSE 0, s |-> << >>, a |-> << >>]

\* a field holding one object (an attachment)
VObj ==
  [t |-> "obj", n |-> 0, s |-> << >>, a |-> << >>]

\* a field holding an array of n objects (collaborators or attachments)
VObjs(n) ==
  [t |-> "objs", n |-> n, s |-> << >>, a |-> << >>]

\* JavaScript truthiness of a field value: what "!v" and "v && w" test
Truthy(v) ==
  CASE v.t = "none" -> FALSE
    [] v.t = "num" -> v.n # 0
    [] v.t = "str" -> v.s # << >>
    [] v.t = "arr" -> TRUE
    [] v.t = "bool" -> v.n = 1
    [] v.t = "obj" -> TRUE
    [] v.t = "objs" -> TRUE

\* the decimal digits of a natural number
RECURSIVE natToString(_)
natToString(k) ==
  IF k < 10 THEN <<Digits[k + 1]>>
  ELSE natToString(k \div 10) \o <<Digits[(k % 10) + 1]>>

\* String(number) for a number given in thousandths
numToString(n) ==
  LET abs == IF n < 0 THEN 0 - n ELSE n
      frac == abs % 1000
      f3 == <<Digits[(frac \div 100) + 1], Digits[((frac \div 10) % 10) + 1],
              Digits[(frac % 10) + 1]>>
      fr == IF frac = 0 THEN << >>
            ELSE IF frac % 100 = 0 THEN <<".">> \o SubSeq(f3, 1, 1)
            ELSE IF frac % 10 = 0 THEN <<".">> \o SubSeq(f3, 1, 2)
            ELSE <<".">> \o f3
  IN (IF n < 0 THEN <<"-">> ELSE << >>) \o natToString(abs \div 1000) \o fr

\* String(value)
String(v) ==
  CASE v.t = "str" -> v.s
    [] v.t = "arr" -> join(v.a)
    [] v.t = "num" -> numToString(v.n)
    [] v.t = "none" -> <<"u","n","d","e","f","i","n","e","d">>
    [] v.t = "bool" -> IF v.n = 1 THEN <<"t","r","u","e">> ELSE <<"f","a","l","s","e">>
    [] v.t = "obj" -> <<"[","o","b","j","e","c","t"," ","O","b","j","e","c","t","]">>
    [] v.t = "objs" -> join([i \in 1..v.n |-> <<"[","o","b","j","e","c","t"," ","O","b","j","e","c","t","]">>])

\* c is a decimal digit
IsDigit(c) ==
  \E i \in 1..10 : Digits[i] = c

\* the value of the digit c
DigitVal(c) ==
  (CHOOSE i \in 1..10 : Digits[i] = c) - 1

\* cleanNumeric leaving the text as it is
cleanNumeric_asIs(s) ==
  s

\* value.replace(/[^\d.-]/g, "")
cleanNumeric(s) ==
  SelectSeq(s, LAMBDA c : IsDigit(c) \/ c = "." \/ c = "-")

\* the length of the run of digits of s that starts at position i
DigitRun(s, i) ==
  IF i > Len(s) \/ ~IsDigit(s[i]) THEN 0
  ELSE (CHOOSE j \in i..Len(s) :
          /\ \A k \in i..j : IsDigit(s[k])
          /\ (j = Len(s) \/ ~IsDigit(s[j + 1]))) - i + 1

\* the natural number written by the digits s[i..i+len-1]
RECURSIVE digitsValue(_, _, _)
digitsValue(s, i, len) ==
  IF len = 0 THEN 0
  ELSE 10 * digitsValue(s, i, len - 1) + DigitVal(s[i + len - 1])

\* the value in thousandths of the fraction digits s[i..i+len-1]
fractionValue(s, i, len) ==
  (IF len >= 1 THEN 100 * DigitVal(s[i]) ELSE 0)
  + (IF len >= 2 THEN 10 * DigitVal(s[i + 1]) ELSE 0)
  + (IF len >= 3 THEN DigitVal(s[i + 2]) ELSE 0)

\* parseFloat on a string of digits, "." and "-": the longest prefix that is
\* a decimal literal, as [nan |-> FALSE, v |-> its value in thousandths], or
\* [nan |-> TRUE, v |-> 0] when no prefix is one
parseFloat(s) ==
  LET neg == Len(s) >= 1 /\ s[1] = "-"
      b == IF neg THEN 2 ELSE 1
      il == DigitRun(s, b)
      dot == b + il <= Len(s) /\ s[b + il] = "."
      fl == IF dot THEN DigitRun(s, b + il + 1) ELSE 0
      mag == 1000 * digitsValue(s, b, il) + fractionValue(s, b + il + 1, fl)
  IN IF il = 0 /\ fl = 0 THEN [nan |-> TRUE, v |-> 0]
     ELSE [nan |-> FALSE, v |-> IF neg THEN 0 - mag ELSE mag]

\* the string branch of parseNumericValue
parseNumericString(s) ==
  LET parsed == parseFloat(cleanNumeric(s))
  IN IF parsed.nan THEN 0 ELSE parsed.v

\* EarningsService.parseNumericValue, in thousandths
parseNumericValue(v) ==
  CASE v.t = "num" -> v.n
    [] v.t = "str" -> parseNumericString(v.s)
    [] v.t = "arr" -> IF Len(v.a) > 0 THEN parseNumericString(v.a[1]) ELSE 0
    [] OTHER -> 0

\* Math.round(x * 100) / 100 for x in thousandths: halves go up
round2(x) ==
  ((x + 5) \div 10) * 10


\* ------------------------------------------------------------------------
\* AirtableService.getTableRecords and EarningsService.calculateUserEarnings
\* ------------------------------------------------------------------------

\* the table calculateUserEarnings reads
TreasuryTable ==
  <<"T","r","e","a","s","u","r","y">>

\* AirtableService.getTableRecords: the response for a table holding the
\* records table, when the Airtable API call throws (apiThrows) or not
getTableRecords(tableName, table, apiThrows) ==
  IF trim(tableName) = << >>
  THEN [records |-> << >>, error |-> <<"T","a","b","l","e"," ","n","a","m","e"," ","c","a","n","n","o","t"," ","b","e"," ","e","m","p","t","y">>]
  ELSE IF apiThrows
  THEN [records |-> << >>,
        error |-> <<"F","a","i","l","e","d"," ","t","o"," ","g","e","t"," ","r","e","c","o","r","d","s"," ","f","r","o","m"," ","t","a","b","l","e",":"," ">> \o tableName]
  ELSE [records |-> table, error |-> Null]

\* an EarningsResult; month is Undefined where the source leaves the key out
EarningsResult(usdc, token, total, month, error) ==
  [usdcTotal |-> usdc, tokenTotal |-> token, totalRecords |-> total,
   month |-> month, error |-> error]

\* isUserRecord comparing the Telegram value with the handle as they are
\* cased
isUserRecord_caseSensitive(record, cleanHandle) ==
  LET telegramField == record.Telegram
      telegramValue == IF telegramField.t = "arr" THEN join(telegramField.a)
                       ELSE String(telegramField)
      cleanedValue == stripAt(telegramValue)
  IN IF ~Truthy(telegramField) THEN FALSE
     ELSE cleanedValue = cleanHandle

\* the predicate of records.filter in calculateUserEarnings: the record is
\* one of the user with the cleaned handle cleanHandle
isUserRecord(record, cleanHandle) ==
  LET telegramField == record.Telegram
      telegramValue == IF telegramField.t = "arr" THEN join(telegramField.a)
                       ELSE String(telegramField)
      cleanedValue == toLowerCase(stripAt(telegramValue))
  IN IF ~Truthy(telegramField) THEN FALSE
     ELSE cleanedValue = toLowerCase(cleanHandle)

\* isPaidOutIn looking for the lower-cased month in the "Paid out" value as
\* it is cased
isPaidOutIn_caseSensitive(record, month) ==
  LET monthLower == toLowerCase(month)
      paidOut == record.PaidOut
  IN IF ~Truthy(paidOut) THEN FALSE
     ELSE includes(String(paidOut), monthLower)

\* the predicate of records.filter in filterByMonth
isPaidOutIn(record, month) ==
  LET monthLower == toLowerCase(month)
      paidOut == record.PaidOut
  IN IF ~Truthy(paidOut) THEN FALSE
     ELSE includes(toLowerCase(String(paidOut)), monthLower)

\* filterByMonth falling back to all the records when none is paid out in
\* the month
filterByMonth_fallsBackToAll(records, month) ==
  LET kept == SelectSeq(records, LAMBDA record : isPaidOutIn(record, month))
  IN IF Len(kept) = 0 THEN records ELSE kept

\* EarningsService.filterByMonth
filterByMonth(records, month) ==
  SelectSeq(records, LAMBDA record : isPaidOutIn(record, month))

\* usdcOf adding amounts of any sign to the USDC total
usdcOf_anySign(record) ==
  LET payout == record.Payout
      currency == record.Currency
  IN IF Truthy(payout) /\ Truthy(currency)
     THEN LET payoutValue == parseNumericValue(payout)
              currencyValue == toUpperCase(String(currency))
          IN IF currencyValue = <<"U","S","D","C">>
             THEN payoutValue ELSE 0
     ELSE 0

\* what one record adds to the USDC total in the forEach of calculateUserEarnings
usdcOf(record) ==
  LET payout == record.Payout
      currency == record.Currency
  IN IF Truthy(payout) /\ Truthy(currency)
     THEN LET payoutValue == parseNumericValue(payout)
              currencyValue == toUpperCase(String(currency))
          IN IF payoutValue > 0 /\ currencyValue = <<"U","S","D","C">>
             THEN payoutValue ELSE 0
     ELSE 0

\* tokenOf without the alias: only the currency TOKEN adds to the token total
tokenOf_noAlias(record) ==
  LET payout == record.Payout
      currency == record.Currency
  IN IF Truthy(payout) /\ Truthy(currency)
     THEN LET payoutValue == parseNumericValue(payout)
              currencyValue == toUpperCase(String(currency))
          IN IF payoutValue > 0 /\ currencyValue = <<"T","O","K","E","N">>
             THEN payoutValue ELSE 0
     ELSE 0

\* what one record adds to the token total in the forEach of calculateUserEarnings
tokenOf(record) ==
  LET payout == record.Payout
      currency == record.Currency
  IN IF Truthy(payout) /\ Truthy(currency)
     THEN LET payoutValue == parseNumericValue(payout)
              currencyValue == toUpperCase(String(currency))
          IN IF /\ payoutValue > 0
                /\ currencyValue # <<"U","S","D","C">>
                /\ (currencyValue = <<"T","O","K","E","N">> \/ currencyValue = <<"T","O","K","E","N","S">>)
             THEN payoutValue ELSE 0
     ELSE 0

\* accumulate without the test payoutValue > 0: a payout is added whatever
\* its sign
RECURSIVE accumulate_signed(_, _)
accumulate_signed(records, acc) ==
  IF Len(records) = 0 THEN acc
  ELSE LET record == Head(records)
           payoutValue == IF Truthy(record.Payout) /\ Truthy(record.Currency)
                          THEN parseNumericValue(record.Payout) ELSE 0
           currencyValue == toUpperCase(String(record.Currency))
       IN accumulate_signed(Tail(records),
            [usdcTotal |-> acc.usdcTotal
                           + (IF currencyValue = <<"U","S","D","C">> THEN payoutValue ELSE 0),
             tokenTotal |-> acc.tokenTotal
                            + (IF currencyValue \in {<<"T","O","K","E","N">>, <<"T","O","K","E","N","S">>}
                               THEN payoutValue ELSE 0)])

\* the forEach of calculateUserEarnings: both accumulators after the records
\* records, started from the pair acc
RECURSIVE accumulate(_, _)
accumulate(records, acc) ==
  IF Len(records) = 0 THEN acc
  ELSE accumulate(Tail(records),
                  [usdcTotal |-> acc.usdcTotal + usdcOf(Head(records)),
                   tokenTotal |-> acc.tokenTotal + tokenOf(Head(records))])

\* totalRecords counting only the records that added to a total
countRecords_credited(filteredRecords) ==
  Len(SelectSeq(filteredRecords,
                LAMBDA record : usdcOf(record) + tokenOf(record) > 0))

\* totalRecords of the result of calculateUserEarnings: the number of
\* records left after the filters
countRecords(filteredRecords) ==
  Len(filteredRecords)

\* calculateUserEarnings up to its await: it returns without fetching the
\* Treasury table
returnsBeforeFetch(telegramHandle) ==
  trim(telegramHandle) = << >>

\* the result calculateUserEarnings returns without fetching
earningsBeforeFetch ==
  EarningsResult(0, 0, 0, Undefined, <<"T","e","l","e","g","r","a","m"," ","h","a","n","d","l","e"," ","c","a","n","n","o","t"," ","b","e"," ","e","m","p","t","y">>)

\* earningsAfterFetch taking an empty table for a valid state: no failure
\* for a fetch that succeeds with zero records
earningsAfterFetch_emptyIsValid(telegramHandle, month, response) ==
  LET cleanHandle == stripAt(telegramHandle)
      records == response.records
      userRecords == SelectSeq(records,
                               LAMBDA record : isUserRecord(record, cleanHandle))
      filteredRecords == IF month # Undefined /\ month # << >>
                         THEN filterByMonth(userRecords, month)
                         ELSE userRecords
      totals == accumulate(filteredRecords, [usdcTotal |-> 0, tokenTotal |-> 0])
  IN IF response.error # Null
     THEN EarningsResult(0, 0, 0, Undefined,
                         <<"F","a","i","l","e","d"," ","t","o"," ","f","e","t","c","h"," ","T","r","e","a","s","u","r","y"," ","d","a","t","a",":"," ">> \o response.error)
     ELSE IF Len(userRecords) = 0
     THEN EarningsResult(0, 0, 0, month, Null)
     ELSE IF month # Undefined /\ month # << >> /\ Len(filteredRecords) = 0
     THEN EarningsResult(0, 0, 0, month, Null)
     ELSE EarningsResult(round2(totals.usdcTotal), round2(totals.tokenTotal),
                         countRecords(filteredRecords), month, Null)

\* calculateUserEarnings after its await: the result for the response
\* response of getTableRecords
earningsAfterFetch(telegramHandle, month, response) ==
  LET cleanHandle == stripAt(telegramHandle)
      records == response.records
      userRecords == SelectSeq(records,
                               LAMBDA record : isUserRecord(record, cleanHandle))
      filteredRecords == IF month # Undefined /\ month # << >>
                         THEN filterByMonth(userRecords, month)
                         ELSE userRecords
      totals == accumulate(filteredRecords, [usdcTotal |-> 0, tokenTotal |-> 0])
  IN IF response.error # Null
     THEN EarningsResult(0, 0, 0, Undefined,
                         <<"F","a","i","l","e","d"," ","t","o"," ","f","e","t","c","h"," ","T","r","e","a","s","u","r","y"," ","d","a","t","a",":"," ">> \o response.error)
     ELSE IF Len(records) = 0
     THEN EarningsResult(0, 0, 0, Undefined, <<"T","r","e","a","s","u","r","y"," ","t","a","b","l","e"," ","i","s"," ","e","m","p","t","y">>)
     ELSE IF Len(userRecords) = 0
     THEN EarningsResult(0, 0, 0, month, Null)
     ELSE IF month # Undefined /\ month # << >> /\ Len(filteredRecords) = 0
     THEN EarningsResult(0, 0, 0, month, Null)
     ELSE EarningsResult(round2(totals.usdcTotal), round2(totals.tokenTotal),
                         countRecords(filteredRecords), month, Null)


\* ------------------------------------------------------------------------
\* Reply texts.  A character outside ASCII is written as its UTF-16 code
\* units, each one element of the text named "uXXXX".
\* ------------------------------------------------------------------------

\* Number.prototype.toFixed(2) for a number in thousandths
toFixed2(n) ==
  LET r == round2(IF n < 0 THEN 0 - n ELSE n)
      c == (r % 1000) \div 10
  IN (IF n < 0 /\ r # 0 THEN <<"-">> ELSE << >>)
     \o natToString(r \div 1000) \o <<".">>
     \o <<Digits[(c \div 10) + 1], Digits[(c % 10) + 1]>>

\* the reply of handleMyloMessage when nothing follows the trigger
helpMessage ==
  <<"uD83D","uDC4B">> \o <<" ","H","e","y"," ","t","h","e","r","e","!"," ","I","'","m"," ","M","y","l","o",","," ","y","o","u","r"," ","a","s","s","i","s","t","a","n","t",".","\n","\n">>
  \o <<"Y","o","u"," ","c","a","n"," ","a","s","k"," ","m","e"," ","t","o",":","\n">>
  \o <<"u2022">> \o <<" ","S","e","a","r","c","h"," ","N","o","t","i","o","n",":"," ","\"","H","e","y"," ","M","y","l","o",","," ","s","e","a","r","c","h"," ","f","o","r"," ","p","r","o","j","e","c","t"," ","p","r","o","p","o","s","a","l","s","\"","\n">>
  \o <<"u2022">> \o <<" ","C","h","e","c","k"," ","e","a","r","n","i","n","g","s",":"," ","\"","H","e","y"," ","M","y","l","o",","," ","h","o","w"," ","m","u","c","h"," ","h","a","v","e"," ","I"," ","e","a","r","n","e","d","?","\"","\n">>
  \o <<"u2022">> \o <<" ","C","h","e","c","k"," ","m","o","n","t","h","l","y"," ","e","a","r","n","i","n","g","s",":"," ","\"","H","e","y"," ","M","y","l","o",","," ","h","o","w"," ","m","u","c","h"," ","h","a","v","e"," ","I"," ","e","a","r","n","e","d"," ","i","n"," ","M","a","y","?","\"","\n","\n">>
  \o <<"W","h","a","t"," ","w","o","u","l","d"," ","y","o","u"," ","l","i","k","e"," ","m","e"," ","t","o"," ","h","e","l","p"," ","y","o","u"," ","w","i","t","h","?">>

\* the acknowledgement of a search
searchingMessage(searchQuery) ==
  <<"uD83D","uDD0D">> \o <<" ","S","e","a","r","c","h","i","n","g"," ","N","o","t","i","o","n"," ","f","o","r",":"," ","\"">> \o searchQuery \o <<"\"",".",".",".">>

\* the reply for an error reported by notion.searchPages
searchErrorMessage(error) ==
  <<"u274C">> \o <<" ","E","r","r","o","r",":"," ">> \o error

\* the reply for a search without results
noPagesMessage(searchQuery) ==
  <<"uD83D","uDCC4">> \o <<" ","N","o"," ","p","a","g","e","s"," ","f","o","u","n","d"," ","f","o","r"," ","\"">> \o searchQuery \o <<"\"",".","\n","\n">>
  \o <<"T","r","y"," ","r","e","p","h","r","a","s","i","n","g"," ","y","o","u","r"," ","s","e","a","r","c","h"," ","o","r"," ","u","s","i","n","g"," ","d","i","f","f","e","r","e","n","t"," ","k","e","y","w","o","r","d","s",".">>

\* the title handleMyloMessage extracts from the properties of a page: the
\* joined plain texts of the first property of type title that has a title
RECURSIVE pageTitle(_)
pageTitle(properties) ==
  IF Len(properties) = 0 THEN <<"U","n","t","i","t","l","e","d">>
  ELSE IF Head(properties).type = "title" /\ Head(properties).title # Undefined
  THEN Head(properties).title
  ELSE pageTitle(Tail(properties))

\* pageEntries numbering the pages from the last one
RECURSIVE pageEntries_reversed(_, _, _)
pageEntries_reversed(pages, i, n) ==
  IF i > n THEN << >>
  ELSE natToString(i) \o <<"."," ","*","*">> \o pageTitle(pages[n + 1 - i].properties) \o <<"*","*","\n">>
       \o <<"uD83D","uDCC5">> \o <<" ","L","a","s","t"," ","e","d","i","t","e","d",":"," ">> \o pages[n + 1 - i].lastEditedDate \o <<"\n">>
       \o <<"uD83D","uDD17">> \o <<" ","[","V","i","e","w"," ","P","a","g","e","]","(">> \o pages[n + 1 - i].url \o <<")","\n">>
       \o <<"uD83D","uDCC4">> \o <<" ","U","s","e"," ">> \o <<"u0060">> \o <<"/","p","a","g","e"," ">> \o pages[n + 1 - i].id \o <<"u0060">> \o <<" ","t","o"," ","g","e","t"," ","c","o","n","t","e","n","t","\n","\n">>
       \o pageEntries_reversed(pages, i + 1, n)

\* the lines of the result list for the pages i..n of pages
RECURSIVE pageEntries(_, _, _)
pageEntries(pages, i, n) ==
  IF i > n THEN << >>
  ELSE natToString(i) \o <<"."," ","*","*">> \o pageTitle(pages[i].properties) \o <<"*","*","\n">>
       \o <<"uD83D","uDCC5">> \o <<" ","L","a","s","t"," ","e","d","i","t","e","d",":"," ">> \o pages[i].lastEditedDate \o <<"\n">>
       \o <<"uD83D","uDD17">> \o <<" ","[","V","i","e","w"," ","P","a","g","e","]","(">> \o pages[i].url \o <<")","\n">>
       \o <<"uD83D","uDCC4">> \o <<" ","U","s","e"," ","u0060","/","p","a","g","e"," ">> \o pages[i].id \o <<"u0060"," ","t","o"," ","g","e","t"," ","c","o","n","t","e","n","t","\n","\n">>
       \o pageEntries(pages, i + 1, n)

\* the most pages the result list shows
MaxListed ==
  5

\* searchResultsMessage listing every page, without the note
searchResultsMessage_listsAll(pages, searchQuery) ==
  <<"uD83D","uDCDA">> \o <<" ","F","o","u","n","d"," ">> \o natToString(Len(pages))
  \o <<" ","p","a","g","e","(","s",")"," ","f","o","r"," ","\"">> \o searchQuery \o <<"\"",":","\n","\n">>
  \o pageEntries(pages, 1, Len(pages))

\* the result list of handleMyloMessage
searchResultsMessage(pages, searchQuery) ==
  <<"uD83D","uDCDA">> \o <<" ","F","o","u","n","d"," ">> \o natToString(Len(pages))
  \o <<" ","p","a","g","e","(","s",")"," ","f","o","r"," ","\"">> \o searchQuery \o <<"\"",":","\n","\n">>
  \o pageEntries(pages, 1, Min(Len(pages), MaxListed))
  \o (IF Len(pages) > MaxListed
      THEN <<".",".","."," ","a","n","d"," ">> \o natToString(Len(pages) - MaxListed) \o <<" ","m","o","r","e"," ","p","a","g","e","s",".">>
      ELSE << >>)

\* the reply of the catch block of handleMyloMessage
handlerErrorMessage ==
  <<"u274C">> \o <<" ","S","o","r","r","y",","," ","I"," ","e","n","c","o","u","n","t","e","r","e","d"," ","a","n"," ","e","r","r","o","r"," ","w","h","i","l","e"," ","p","r","o","c","e","s","s","i","n","g"," ","y","o","u","r"," ","r","e","q","u","e","s","t","."," ","P","l","e","a","s","e"," ","t","r","y"," ","a","g","a","i","n"," ","l","a","t","e","r",".">>

\* the reply of handleEarningsQuery without an earnings service
noServiceMessage ==
  <<"uD83D","uDCB0">> \o <<" ","E","a","r","n","i","n","g","s"," ","s","e","r","v","i","c","e"," ","i","s"," ","n","o","t"," ","a","v","a","i","l","a","b","l","e","."," ","P","l","e","a","s","e"," ","c","h","e","c","k"," ","t","h","e"," ","A","i","r","t","a","b","l","e"," ","c","o","n","f","i","g","u","r","a","t","i","o","n",".">>

\* the reply of handleEarningsQuery when the sender has no username
noHandleMessage ==
  <<"u274C">> \o <<" ","C","o","u","l","d"," ","n","o","t"," ","d","e","t","e","r","m","i","n","e"," ","y","o","u","r"," ","T","e","l","e","g","r","a","m"," ","h","a","n","d","l","e","."," ","P","l","e","a","s","e"," ","m","a","k","e"," ","s","u","r","e"," ","y","o","u"," ","h","a","v","e"," ","a"," ","u","s","e","r","n","a","m","e"," ","s","e","t",".">>

\* monthText that never names the month
monthText_absent(month) ==
  << >>

\* " for <month>" when month is set
monthText(month) ==
  IF month # Undefined /\ month # << >> THEN <<" ","f","o","r"," ">> \o month ELSE << >>

\* the acknowledgement of an earnings query
calculatingMessage(month) ==
  <<"uD83D","uDCB0">> \o <<" ","C","a","l","c","u","l","a","t","i","n","g"," ","y","o","u","r"," ","e","a","r","n","i","n","g","s">> \o monthText(month) \o <<".",".",".">>

\* formatEarningsMessage with both currency lines whatever the totals
formatEarningsMessage_bothLines(result, telegramHandle) ==
  IF result.error # Null /\ result.error # << >>
  THEN <<"u00E2","u0152">> \o <<" ">> \o result.error
  ELSE IF result.totalRecords = 0
  THEN <<"u00F0","u0178","u2019","u00B0">> \o <<" ","N","o"," ","e","a","r","n","i","n","g","s"," ","f","o","u","n","d"," ","f","o","r"," ","@">>
       \o telegramHandle \o monthText(result.month) \o <<".">>
  ELSE <<"u00F0","u0178","u2019","u00B0">> \o <<" ","*","*","E","a","r","n","i","n","g","s"," ","S","u","m","m","a","r","y"," ","f","o","r"," ","@">>
       \o telegramHandle \o <<"*","*">> \o monthText(result.month) \o <<"\n","\n">>
       \o <<"u00F0","u0178","u2019","u00B5">> \o <<" ","*","*","U","S","D","C",":","*","*"," ","$">>
       \o toFixed2(result.usdcTotal) \o <<"\n">>
       \o <<"u00F0","u0178","u00AA","u2122">> \o <<" ","*","*","T","o","k","e","n","s",":","*","*"," ">>
       \o toFixed2(result.tokenTotal) \o <<"\n">>
       \o <<"\n">> \o <<"u00F0","u0178","u201C","u0160">> \o <<" ","B","a","s","e","d"," ","o","n"," ">>
       \o natToString(result.totalRecords) \o <<" ","p","a","y","o","u","t"," ","r","e","c","o","r","d","(","s",")">>

\* EarningsService.formatEarningsMessage
formatEarningsMessage(result, telegramHandle) ==
  IF result.error # Null /\ result.error # << >>
  THEN <<"u00E2","u0152">> \o <<" ">> \o result.error
  ELSE IF result.totalRecords = 0
  THEN <<"u00F0","u0178","u2019","u00B0">> \o <<" ","N","o"," ","e","a","r","n","i","n","g","s"," ","f","o","u","n","d"," ","f","o","r"," ","@">>
       \o telegramHandle \o monthText(result.month) \o <<".">>
  ELSE <<"u00F0","u0178","u2019","u00B0">> \o <<" ","*","*","E","a","r","n","i","n","g","s"," ","S","u","m","m","a","r","y"," ","f","o","r"," ","@">>
       \o telegramHandle \o <<"*","*">> \o monthText(result.month) \o <<"\n","\n">>
       \o (IF result.usdcTotal > 0
           THEN <<"u00F0","u0178","u2019","u00B5">> \o <<" ","*","*","U","S","D","C",":","*","*"," ","$">>
                \o toFixed2(result.usdcTotal) \o <<"\n">>
           ELSE << >>)
       \o (IF result.tokenTotal > 0
           THEN <<"u00F0","u0178","u00AA","u2122">> \o <<" ","*","*","T","o","k","e","n","s",":","*","*"," ">>
                \o toFixed2(result.tokenTotal) \o <<"\n">>
           ELSE << >>)
       \o (IF result.usdcTotal = 0 /\ result.tokenTotal = 0
           THEN <<"u00F0","u0178","u201C","u0160">> \o <<" ","F","o","u","n","d"," ">>
                \o natToString(result.totalRecords)
                \o <<" ","r","e","c","o","r","d","(","s",")"," ","b","u","t"," ","n","o"," ","v","a","l","i","d"," ","p","a","y","o","u","t","s",".","\n">>
           ELSE <<"\n">> \o <<"u00F0","u0178","u201C","u0160">> \o <<" ","B","a","s","e","d"," ","o","n"," ">>
                \o natToString(result.totalRecords) \o <<" ","p","a","y","o","u","t"," ","r","e","c","o","r","d","(","s",")">>)


\* ------------------------------------------------------------------------
\* State
\* ------------------------------------------------------------------------

VARIABLES
  treasury,          \* the records of the Treasury table in Airtable
  epc,               \* calculateUserEarnings: "idle", "fetching" (at its await), "returned"
  callHandle,        \* telegramHandle of the latest call of calculateUserEarnings
  callMonth,         \* month of the latest call of calculateUserEarnings
  fetchResponse,     \* what getTableRecords returned to the latest call
  lastResult,        \* the EarningsResult the latest completed call returned
  prevCall,          \* response and result of the completed call before the latest
  callCount,         \* calls of calculateUserEarnings so far
  hpc,               \* handleMyloMessage: "idle", "searching", "calculating", "done"
  ctxText,           \* ctx.message.text of the pass
  ctxUsername,       \* ctx.from?.username of the pass
  earningsAvailable, \* the earnings argument of the pass is not null
  replies,           \* the texts the pass sent with ctx.reply, in order
  searchCalls,       \* the queries the pass gave to notion.searchPages, in order
  searchResponse,    \* what notion.searchPages returned to the pass
  cpc,               \* a /page or /table command: "idle", "retrieving", "done"
  command,           \* the command being handled: its name, "page" or "table", and its argument
  commandResponse,   \* what getPageContent or getTableSummary returned to it
  fnCalled,          \* the function called on its own: "none" before the call
  fnArgument,        \* the arguments of that call
  fnResult,          \* what that call returned
  passes             \* the passes of handleMyloMessage that may interleave: for each its
                     \* context, its position, its local variables and what it did so far

evars ==
  <<treasury, epc, callHandle, callMonth, fetchResponse, lastResult, prevCall,
    callCount>>

hvars ==
  <<hpc, ctxText, ctxUsername, earningsAvailable, replies, searchCalls,
    searchResponse>>

cvars ==
  <<cpc, command, commandResponse>>

fvars ==
  <<fnCalled, fnArgument, fnResult>>

pvars ==
  <<passes>>

vars ==
  <<treasury, epc, callHandle, callMonth, fetchResponse, lastResult, prevCall,
    callCount, hpc, ctxText, ctxUsername, earningsAvailable, replies,
    searchCalls, searchResponse, cpc, command, commandResponse, fnCalled,
    fnArgument, fnResult, passes>>

\* ------------------------------------------------------------------------
\* Bounds and the inputs drawn within them
\* ------------------------------------------------------------------------

\* the most records the Treasury table holds
MaxRecords ==
  2

\* the most calls of calculateUserEarnings in one behaviour
MaxCalls ==
  2

\* a Treasury record with its four fields
Record(telegram, payout, currency, paidOut) ==
  [Telegram |-> telegram, Payout |-> payout, Currency |-> currency,
   PaidOut |-> paidOut]

\* the records the Treasury table is filled from
TreasuryRecords ==
  { Record(VStr(<<"@","b","o","b">>), VStr(<<"1","0","0">>), VStr(<<"U","S","D","C">>), VStr(<<"M","a","y"," ","2","5">>)),
    Record(VStr(<<"@","b","o","b">>), VStr(<<"5","0">>), VStr(<<"T","O","K","E","N">>), VStr(<<"J","u","n","e"," ","2","5">>)),
    Record(VStr(<<"@","A","l","i","c","e">>), VNum(125), VStr(<<"u","s","d","c">>), VStr(<<"M","a","y"," ","2","0","2","5"," ","b","a","t","c","h">>)),
    Record(VArr(<< <<"a","l","i","c","e">> >>), VStr(<<"-","5">>), VStr(<<"T","O","K","E","N","S">>), VStr(<<"A","p","r","i","l"," ","2","0","2","5">>)),
    Record(VStr(<<"a","l","i","c","e">>), VStr(<<"$","1",",","2","3","4",".","5","0">>), VStr(<<"E","U","R">>), VNone),
    Record(VNone, VNum(10000), VStr(<<"U","S","D","C">>), VStr(<<"M","a","y"," ","2","5">>)),
    Record(VStr(<<"B","o","b">>), VStr(<<"a","b","c">>), VStr(<<"U","S","D","C">>), VStr(<<"m","a","y"," ","2","5">>)),
    Record(VArr(<< <<"a","l","i","c","e">>, <<"b","o","b">> >>), VNum(375), VNone, VStr(<<"J","u","n","e"," ","2","5">>)),
    Record(VStr(<<"A","L","I","C","E">>), VNum(375), VStr(<<"T","o","k","e","n","s">>), VStr(<<"M","A","Y">>)),
    Record(VStr(<<"b","o","b">>), VNum(-2500), VStr(<<"U","S","D","C">>), VStr(<<"M","a","y"," ","2","5">>)) }

\* the tables of at most MaxRecords records
Ledgers ==
  UNION { [1..n -> TreasuryRecords] : n \in 0..MaxRecords }

\* the handles calculateUserEarnings is called with
Handles ==
  { <<"b","o","b">>, <<"a","l","i","c","e">>, <<"@","A","l","i","c","e">>, <<"c","a","r","o","l">>, <<" "," ">> }

\* the months calculateUserEarnings is called with
Months ==
  { Undefined, <<"m","a","y">>, <<"M","a","y">>, <<"j","u","n","e">> }

\* no call of calculateUserEarnings has returned yet
NoResult ==
  EarningsResult(0, 0, 0, Undefined, Undefined)

\* getTableRecords has not returned to the latest call
NoResponse ==
  [records |-> << >>, error |-> Undefined]

\* there is no completed call before the latest
NoCall ==
  [response |-> NoResponse, result |-> NoResult]

\* notion.searchPages has not returned to the pass
NoSearchResponse ==
  [pages |-> << >>, error |-> Undefined]

\* no command is being handled
NoCommand ==
  [name |-> "none", arg |-> << >>]

\* getPageContent or getTableSummary has not returned to the command
NoCommandResponse ==
  [content |-> << >>, error |-> Undefined]

\* the two passes of handleMyloMessage whose interleaving is looked at
PassIds ==
  {1, 2}

\* a pass before handleMyloMessage is called: no context, nothing done
IdlePass ==
  [pc |-> "idle", text |-> << >>, username |-> Undefined, available |-> FALSE,
   searchQuery |-> Null, month |-> Undefined, outcome |-> "none",
   response |-> NoSearchResponse, fetched |-> NoResponse, log |-> << >>]

\* no pass has started
NoPasses ==
  [p \in PassIds |-> IdlePass]

\* ------------------------------------------------------------------------
\* EarningsService.calculateUserEarnings as two steps around its await
\* ------------------------------------------------------------------------

\* a call of calculateUserEarnings runs to its await, or to its return when
\* the handle is blank
startCalculation(telegramHandle, month) ==
  /\ epc \in {"idle", "returned"}
  /\ callHandle' = telegramHandle
  /\ callMonth' = month
  /\ callCount' = callCount + 1
  /\ prevCall' = IF epc = "returned"
                 THEN [response |-> fetchResponse, result |-> lastResult]
                 ELSE NoCall
  /\ fetchResponse' = NoResponse
  /\ IF returnsBeforeFetch(telegramHandle)
     THEN /\ lastResult' = earningsBeforeFetch
          /\ epc' = "returned"
     ELSE /\ lastResult' = NoResult
          /\ epc' = "fetching"
  /\ UNCHANGED treasury

\* finishCalculation with accumulators that outlive the call: the totals of
\* the call before are added to the totals of this one
finishCalculation_accumulating(apiThrows) ==
  /\ epc = "fetching"
  /\ fetchResponse' = getTableRecords(TreasuryTable, treasury, apiThrows)
  /\ lastResult' =
       LET res == earningsAfterFetch(callHandle, callMonth, fetchResponse')
       IN [res EXCEPT !.usdcTotal = @ + prevCall.result.usdcTotal,
                      !.tokenTotal = @ + prevCall.result.tokenTotal]
  /\ epc' = "returned"
  /\ UNCHANGED <<treasury, callHandle, callMonth, prevCall, callCount>>

\* getTableRecords returns to the waiting call, which runs to its return
finishCalculation(apiThrows) ==
  /\ epc = "fetching"
  /\ fetchResponse' = getTableRecords(TreasuryTable, treasury, apiThrows)
  /\ lastResult' = earningsAfterFetch(callHandle, callMonth, fetchResponse')
  /\ epc' = "returned"
  /\ UNCHANGED <<treasury, callHandle, callMonth, prevCall, callCount>>

\* calculateUserEarnings is called from outside the pipeline, as the script
\* test-earnings.ts does
CalculateUserEarnings(telegramHandle, month) ==
  /\ hpc = "idle"
  /\ callCount < MaxCalls
  /\ startCalculation(telegramHandle, month)
  /\ UNCHANGED hvars
  /\ UNCHANGED <<fvars, cvars, pvars>>

\* getTableRecords returns to a call made from outside the pipeline
GetTableRecordsReturns(apiThrows) ==
  /\ hpc = "idle"
  /\ finishCalculation(apiThrows)
  /\ UNCHANGED hvars
  /\ UNCHANGED <<fvars, cvars, pvars>>

\* the state before any call, for a Treasury table drawn from tables
InitWith(tables) ==
  /\ treasury \in tables
  /\ epc = "idle"
  /\ callHandle = << >>
  /\ callMonth = Undefined
  /\ fetchResponse = NoResponse
  /\ lastResult = NoResult
  /\ prevCall = NoCall
  /\ callCount = 0
  /\ hpc = "idle"
  /\ ctxText = << >>
  /\ ctxUsername = Undefined
  /\ earningsAvailable = FALSE
  /\ replies = << >>
  /\ searchCalls = << >>
  /\ searchResponse = NoSearchResponse
  /\ cpc = "idle"
  /\ command = NoCommand
  /\ commandResponse = NoCommandResponse
  /\ passes = NoPasses

\* no function is called on its own
NoFunctionCall ==
  /\ fnCalled = "none"
  /\ fnArgument = << >>
  /\ fnResult = << >>

InitEarnings ==
  InitWith(Ledgers) /\ NoFunctionCall

\* a first call with any arguments, a later call with the same arguments
NextEarnings ==
  \/ \E h \in Handles, m \in Months :
       epc = "idle" /\ CalculateUserEarnings(h, m)
  \/ epc = "returned" /\ CalculateUserEarnings(callHandle, callMonth)
  \/ \E apiThrows \in BOOLEAN : GetTableRecordsReturns(apiThrows)

SpecEarnings ==
  InitEarnings /\ [][NextEarnings]_vars


\* ------------------------------------------------------------------------
\* handleMyloMessage and handleEarningsQuery
\* ------------------------------------------------------------------------

\* what the message may start with
Prefixes ==
  { << >>, <<"h","e","y"," ","m","y","l","o"," ">>, <<"H","e","y"," ","M","y","l","o",","," ">>, <<"H","E","Y"," ","M","Y","L","O",",","\n">> }

\* what may follow
Bodies ==
  { << >>, <<" "," ">>, <<"b","a","n","a","n","a">>, <<"s","e","a","r","c","h"," ","f","o","r"," ","p","r","o","j","e","c","t"," ","d","o","c","s">>,
    <<"p","l","e","a","s","e"," ","f","i","n","d"," ","X">>, <<"i"," ","n","e","e","d"," ","t","o"," ","f","i","n","d"," ","X">>, <<"h","e","l","p"," ","m","e"," ","f","i","n","d"," ","X">>,
    <<"c","a","n"," ","y","o","u"," ","l","o","o","k"," ","f","o","r"," ","L","a","t","a","m"," ","P","r","o","p","o","s","a","l","s">>, <<"l","o","o","k">>, <<"s","e","a","r","c","h","i","n","g">>,
    <<"f","i","n","d"," ","n","o","t","e","s","\n","f","r","o","m"," ","m","a","y">>, <<"s","e","a","r","c","h"," ","f","o","r"," ","m","y"," ","e","a","r","n","i","n","g","s"," ","r","e","p","o","r","t">>,
    <<"h","o","w"," ","m","u","c","h"," ","h","a","v","e"," ","i"," ","e","a","r","n","e","d">>, <<"H","o","w"," ","m","u","c","h"," ","h","a","v","e"," ","I"," ","e","a","r","n","e","d","?">>,
    <<"w","h","a","t"," ","h","a","v","e"," ","I"," ","m","a","d","e"," ","i","n"," ","M","a","y">>, <<"m","y"," ","e","a","r","n","i","n","g","s"," ","f","o","r"," ","J","u","n","e">>,
    <<"f","i","n","d"," ","t","o","t","a","l"," ","e","a","r","n","i","n","g","s"," ","d","u","r","i","n","g"," ","d","e","c","e","m","b","e","r">>, <<"w","h","a","t"," ","i"," ","e","a","r","n">> }

\* the texts of the messages handleMyloMessage is given
Messages ==
  { p \o b : p \in Prefixes, b \in Bodies }

\* the usernames of the senders; Undefined for a sender without username
Usernames ==
  { Undefined, <<"b","o","b">>, <<"a","l","i","c","e">> }

\* a page as notion.searchPages returns it; lastEditedDate is the text
\* toLocaleDateString gives for its last_edited_time
Page(id, properties, lastEditedDate, url) ==
  [id |-> id, properties |-> properties, lastEditedDate |-> lastEditedDate,
   url |-> url]

\* pages with a title, with a title after another property, and without one
PageA ==
  Page(<<"a","1">>, << [type |-> "title", title |-> <<"P","l","a","n">>] >>, <<"5","/","1","/","2","0","2","5">>, <<"n",".","s","o","/","a","1">>)

PageB ==
  Page(<<"b","2">>, << [type |-> "rich_text", title |-> Undefined],
                  [type |-> "title", title |-> <<"D","o","c","s">>] >>, <<"6","/","2","/","2","0","2","5">>, <<"n",".","s","o","/","b","2">>)

PageC ==
  Page(<<"c","3">>, << [type |-> "rich_text", title |-> Undefined] >>, <<"7","/","3","/","2","0","2","5">>, <<"n",".","s","o","/","c","3">>)

\* the most pages notion.searchPages returns
MaxPages ==
  7

\* the i-th of the pages with ids p1, p2, ...: with a title, with a title
\* after another property, without one, in turn
PageN(i) ==
  Page(<<"p">> \o natToString(i),
       CASE i % 3 = 1 -> << [type |-> "title", title |-> <<"P","l","a","n"," ">> \o natToString(i)] >>
         [] i % 3 = 2 -> << [type |-> "rich_text", title |-> Undefined],
                            [type |-> "title", title |-> <<"D","o","c","s"," ">> \o natToString(i)] >>
         [] OTHER -> << [type |-> "rich_text", title |-> Undefined] >>,
       natToString(i) \o <<"/","1","/","2","0","2","5">>, <<"n",".","s","o","/","p">> \o natToString(i))

\* n pages in the order p1..pn and in the order pn..p1
PageLists ==
  { [i \in 1..n |-> PageN(i)] : n \in 1..MaxPages }
  \cup { [i \in 1..n |-> PageN(n + 1 - i)] : n \in 2..MaxPages }

\* the length of a long page title
LongTitleLen ==
  1000

\* the i-th of the pages with a long title
LongPage(i) ==
  Page(<<"p">> \o natToString(i),
       << [type |-> "title", title |-> [k \in 1..LongTitleLen |-> "x"]] >>,
       natToString(i) \o <<"/","1","/","2","0","2","5">>, <<"n",".","s","o","/","p">> \o natToString(i))

\* five pages with long titles
LongPages ==
  [i \in 1..5 |-> LongPage(i)]

\* what notion.searchPages may return
SearchResponses ==
  { [pages |-> pages, error |-> Null] : pages \in PageLists \cup {LongPages} } \cup
  { [pages |-> << >>, error |-> <<"F","a","i","l","e","d"," ","t","o"," ","s","e","a","r","c","h"," ","N","o","t","i","o","n"," ","p","a","g","e","s">>],
    [pages |-> << >>, error |-> Null],
    [pages |-> <<PageA>>, error |-> Null],
    [pages |-> <<PageB, PageA, PageC>>, error |-> Null],
    [pages |-> <<PageC, PageA, PageB, PageA, PageC, PageB, PageA>>, error |-> Null] }

\* ctx.reply(text) and ctx.reply(text, { parse_mode: "Markdown" })
Reply(text) ==
  [text |-> text, parse_mode |-> "none"]

MarkdownReply(text) ==
  [text |-> text, parse_mode |-> "Markdown"]

HtmlReply(text) ==
  [text |-> text, parse_mode |-> "HTML"]

\* handleEarningsQuery without the check of the username
handleEarningsQuery_anySender(username, available, query) ==
  IF ~available
  THEN /\ replies' = <<Reply(noServiceMessage)>>
       /\ hpc' = "done"
       /\ UNCHANGED evars
  ELSE /\ startCalculation(username, query.month)
       /\ IF returnsBeforeFetch(username)
          THEN /\ replies' = <<Reply(calculatingMessage(query.month)),
                               MarkdownReply(formatEarningsMessage(lastResult', username))>>
               /\ hpc' = "done"
          ELSE /\ replies' = <<Reply(calculatingMessage(query.month))>>
               /\ hpc' = "calculating"

\* handleEarningsQuery up to its first await of a collaborator, for the
\* sender username and the parsed query
handleEarningsQuery(username, available, query) ==
  IF ~available
  THEN /\ replies' = <<Reply(noServiceMessage)>>
       /\ hpc' = "done"
       /\ UNCHANGED evars
  ELSE IF username = Undefined \/ username = << >>
  THEN /\ replies' = <<Reply(noHandleMessage)>>
       /\ hpc' = "done"
       /\ UNCHANGED evars
  ELSE /\ startCalculation(username, query.month)
       /\ IF returnsBeforeFetch(username)
          THEN /\ replies' = <<Reply(calculatingMessage(query.month)),
                               MarkdownReply(formatEarningsMessage(lastResult', username))>>
               /\ hpc' = "done"
          ELSE /\ replies' = <<Reply(calculatingMessage(query.month))>>
               /\ hpc' = "calculating"

\* handleMyloMessage without the help reply: an empty query is searched for
HandleMyloMessage_searchesEmpty(text, username, available) ==
  /\ hpc = "idle"
  /\ epc = "idle"
  /\ ctxText' = text
  /\ ctxUsername' = username
  /\ earningsAvailable' = available
  /\ UNCHANGED searchResponse
  /\ UNCHANGED <<fvars, cvars, pvars>>
  /\ LET messageText == toLowerCase(text)
         originalText == orElse(text, messageText)
         earningsQuery == extractEarningsQuery(messageText, originalText)
         searchQuery == extractSearchQuery(messageText, originalText)
     IN IF ~earningsQuery.isNull
        THEN /\ handleEarningsQuery(username, available, earningsQuery)
             /\ searchCalls' = << >>
        ELSE /\ replies' = <<Reply(searchingMessage(IF searchQuery = Null THEN << >> ELSE searchQuery))>>
             /\ searchCalls' = <<IF searchQuery = Null THEN << >> ELSE searchQuery>>
             /\ hpc' = "searching"
             /\ UNCHANGED evars

\* handleMyloMessage up to its first await of a collaborator
HandleMyloMessage(text, username, available) ==
  /\ hpc = "idle"
  /\ epc = "idle"
  /\ ctxText' = text
  /\ ctxUsername' = username
  /\ earningsAvailable' = available
  /\ UNCHANGED searchResponse
  /\ UNCHANGED <<fvars, cvars, pvars>>
  /\ LET messageText == toLowerCase(text)
         originalText == orElse(text, messageText)
         earningsQuery == extractEarningsQuery(messageText, originalText)
         searchQuery == extractSearchQuery(messageText, originalText)
     IN IF ~earningsQuery.isNull
        THEN /\ handleEarningsQuery(username, available, earningsQuery)
             /\ searchCalls' = << >>
        ELSE IF searchQuery = Null \/ searchQuery = << >>
        THEN /\ replies' = <<Reply(helpMessage)>>
             /\ searchCalls' = << >>
             /\ hpc' = "done"
             /\ UNCHANGED evars
        ELSE /\ replies' = <<Reply(searchingMessage(searchQuery))>>
             /\ searchCalls' = <<searchQuery>>
             /\ hpc' = "searching"
             /\ UNCHANGED evars

\* handleMyloMessage going on after the error reply: the reply for the
\* pages follows it
SearchPagesReturns_noReturnOnError(response) ==
  /\ hpc = "searching"
  /\ searchResponse' = response
  /\ LET searchQuery == searchCalls[Len(searchCalls)]
         forPages == IF Len(response.pages) = 0
                     THEN Reply(noPagesMessage(searchQuery))
                     ELSE MarkdownReply(searchResultsMessage(response.pages, searchQuery))
     IN replies' = IF response.error # Null /\ response.error # << >>
                   THEN replies \o <<Reply(searchErrorMessage(response.error)), forPages>>
                   ELSE Append(replies, forPages)
  /\ hpc' = "done"
  /\ UNCHANGED <<ctxText, ctxUsername, earningsAvailable, searchCalls>>
  /\ UNCHANGED <<fvars, cvars, pvars>>
  /\ UNCHANGED evars

\* notion.searchPages returns and handleMyloMessage runs to its end
SearchPagesReturns(response) ==
  /\ hpc = "searching"
  /\ searchResponse' = response
  /\ LET searchQuery == searchCalls[Len(searchCalls)]
     IN replies' = Append(replies,
          IF response.error # Null /\ response.error # << >>
          THEN Reply(searchErrorMessage(response.error))
          ELSE IF Len(response.pages) = 0
          THEN Reply(noPagesMessage(searchQuery))
          ELSE MarkdownReply(searchResultsMessage(response.pages, searchQuery)))
  /\ hpc' = "done"
  /\ UNCHANGED <<ctxText, ctxUsername, earningsAvailable, searchCalls>>
  /\ UNCHANGED <<fvars, cvars, pvars>>
  /\ UNCHANGED evars

\* getTableRecords returns to the call handleEarningsQuery awaits, and
\* handleEarningsQuery runs to its end
EarningsReturns(apiThrows) ==
  /\ hpc = "calculating"
  /\ finishCalculation(apiThrows)
  /\ replies' = Append(replies,
                       MarkdownReply(formatEarningsMessage(lastResult', callHandle)))
  /\ hpc' = "done"
  /\ UNCHANGED <<ctxText, ctxUsername, earningsAvailable, searchCalls,
               searchResponse>>
  /\ UNCHANGED <<fvars, cvars, pvars>>

\* the Treasury table of the end-to-end scenario, and an empty one
PipelineLedgers ==
  { << >>,
    << Record(VStr(<<"@","b","o","b">>), VStr(<<"1","0","0">>), VStr(<<"U","S","D","C">>), VStr(<<"M","a","y"," ","2","5">>)),
       Record(VStr(<<"@","b","o","b">>), VStr(<<"5","0">>), VStr(<<"T","O","K","E","N">>), VStr(<<"J","u","n","e"," ","2","5">>)) >> }

Init ==
  InitWith(PipelineLedgers) /\ NoFunctionCall

Next ==
  \/ \E text \in Messages, username \in Usernames, available \in BOOLEAN :
       HandleMyloMessage(text, username, available)
  \/ \E response \in SearchResponses : SearchPagesReturns(response)
  \/ \E apiThrows \in BOOLEAN : EarningsReturns(apiThrows)

Spec ==
  Init /\ [][Next]_vars


\* ------------------------------------------------------------------------
\* The /page and /table commands
\* ------------------------------------------------------------------------

\* maxLength of the /page and /table handlers
maxLength ==
  4000

\* chunksFrom with chunks that share their boundary character
RECURSIVE chunksFrom_overlapping(_, _)
chunksFrom_overlapping(content, from) ==
  IF from >= Len(content) THEN << >>
  ELSE <<SubSeq(content, IF from = 0 THEN 1 ELSE from, Min(from + maxLength, Len(content)))>>
       \o chunksFrom_overlapping(content, from + maxLength)

\* content.slice(i, i + maxLength) for i = from, from + maxLength, ...: the
\* chunks of the for loop of the handlers (from counts from 0)
RECURSIVE chunksFrom(_, _)
chunksFrom(content, from) ==
  IF from >= Len(content) THEN << >>
  ELSE <<SubSeq(content, from + 1, Min(from + maxLength, Len(content)))>>
       \o chunksFrom(content, from + maxLength)

\* the emoji that begins the part label of the command
partEmoji(cmd) ==
  IF cmd = "page" THEN <<"uD83D","uDCC4">> ELSE <<"uD83D","uDCCA">>

\* the replies of the handlers for a content that is not blank: the content
\* itself, or its chunks labelled "Part i/N"
contentReplies(cmd, content) ==
  IF Len(content) <= maxLength
  THEN <<MarkdownReply(content)>>
  ELSE LET chunks == chunksFrom(content, 0)
       IN [i \in 1..Len(chunks) |->
             MarkdownReply(partEmoji(cmd) \o <<" ","P","a","r","t"," ">> \o natToString(i) \o <<"/">>
                           \o natToString(Len(chunks)) \o <<":","\n","\n">> \o chunks[i])]

\* the reply of a command given no argument
usageMessage(cmd) ==
  IF cmd = "page"
  THEN <<"uD83D","uDCC4">> \o <<" ","P","l","e","a","s","e"," ","p","r","o","v","i","d","e"," ","a"," ","p","a","g","e"," ","I","D",".","\n","\n","E","x","a","m","p","l","e",":"," ">> \o <<"u0060">> \o <<"/","p","a","g","e"," ","a","b","c","1","2","3","d","e","f","4","5","6">> \o <<"u0060">>
  ELSE <<"uD83D","uDCCA">> \o <<" ","P","l","e","a","s","e"," ","p","r","o","v","i","d","e"," ","a"," ","t","a","b","l","e"," ","n","a","m","e",".","\n","\n","E","x","a","m","p","l","e",":"," ">> \o <<"u0060">> \o <<"/","t","a","b","l","e"," ","C","o","n","t","a","c","t","s">> \o <<"u0060">>

\* the acknowledgement of a command
retrievingMessage(cmd, arg) ==
  IF cmd = "page"
  THEN <<"uD83D","uDCD6">> \o <<" ","R","e","t","r","i","e","v","i","n","g"," ","p","a","g","e"," ","c","o","n","t","e","n","t",".",".",".">>
  ELSE <<"uD83D","uDCCA">> \o <<" ","G","e","t","t","i","n","g"," ","t","a","b","l","e"," ","s","u","m","m","a","r","y"," ","f","o","r",":"," ">> \o arg

\* the reply of a command for a blank content
emptyContentMessage(cmd, arg) ==
  IF cmd = "page"
  THEN <<"uD83D","uDCC4">> \o <<" ","T","h","i","s"," ","p","a","g","e"," ","a","p","p","e","a","r","s"," ","t","o"," ","b","e"," ","e","m","p","t","y"," ","o","r"," ","c","o","n","t","a","i","n","s"," ","u","n","s","u","p","p","o","r","t","e","d"," ","c","o","n","t","e","n","t"," ","t","y","p","e","s",".">>
  ELSE <<"uD83D","uDCC4">> \o <<" ","N","o"," ","d","a","t","a"," ","f","o","u","n","d"," ","i","n"," ","t","a","b","l","e"," ","\"">> \o arg \o <<"\"",".">>

\* the most whole chunks a content has, but for one or two characters
MaxParts ==
  3

\* the lengths of the contents: short ones, 9000, and those within two
\* characters of a multiple of maxLength
ContentLengths ==
  { 1, 2, 9000 } \cup { k * maxLength + d : k \in 1..MaxParts, d \in -2..2 }

\* the content of length len whose digits repeat with period q
ContentOf(len, q) ==
  [k \in 1..len |-> Digits[(k % q) + 1]]

\* what getPageContent and getTableSummary may return
CommandResponses ==
  { [content |-> ContentOf(len, q), error |-> Null] :
      len \in ContentLengths, q \in {3, 7, 10} }
  \cup { [content |-> << >>, error |-> Null],
         [content |-> <<" "," ","\n">>, error |-> Null],
         [content |-> << >>, error |-> <<"F","a","i","l","e","d"," ","t","o"," ","g","e","t"," ","p","a","g","e"," ","c","o","n","t","e","n","t">>] }

\* the names of the commands that split their replies
Commands ==
  { "page", "table" }

\* what follows the command in the message (ctx.match)
CommandArguments ==
  { << >>, <<" ">>, <<"a","b","c","1","2","3">>, <<" ","C","o","n","t","a","c","t","s"," ">> }

\* bot.command("page") and bot.command("table") up to the await of their
\* collaborator
Command(cmd, match) ==
  /\ cpc = "idle"
  /\ hpc = "idle"
  /\ epc = "idle"
  /\ command' = [name |-> cmd, arg |-> trim(match)]
  /\ IF trim(match) = << >>
     THEN /\ replies' = <<HtmlReply(usageMessage(cmd))>>
          /\ cpc' = "done"
     ELSE /\ replies' = <<Reply(retrievingMessage(cmd, trim(match)))>>
          /\ cpc' = "retrieving"
  /\ UNCHANGED commandResponse
  /\ UNCHANGED <<hpc, ctxText, ctxUsername, earningsAvailable, searchCalls,
                 searchResponse>>
  /\ UNCHANGED <<evars, fvars, pvars>>

\* getPageContent or getTableSummary returns and the handler runs to its end
CommandReturns(response) ==
  /\ cpc = "retrieving"
  /\ commandResponse' = response
  /\ replies' = replies \o
       (IF response.error # Null /\ response.error # << >>
        THEN <<Reply(searchErrorMessage(response.error))>>
        ELSE IF trim(response.content) = << >>
        THEN <<Reply(emptyContentMessage(command.name, command.arg))>>
        ELSE contentReplies(command.name, response.content))
  /\ cpc' = "done"
  /\ UNCHANGED command
  /\ UNCHANGED <<hpc, ctxText, ctxUsername, earningsAvailable, searchCalls,
                 searchResponse>>
  /\ UNCHANGED <<evars, fvars, pvars>>

InitCommands ==
  InitWith({<< >>}) /\ NoFunctionCall

NextCommands ==
  \/ \E cmd \in Commands, match \in CommandArguments : Command(cmd, match)
  \/ \E response \in CommandResponses : CommandReturns(response)

SpecCommands ==
  InitCommands /\ [][NextCommands]_vars

\* ------------------------------------------------------------------------
\* EarningsService.parseNumericValue called on its own
\* ------------------------------------------------------------------------

\* the longest text parseNumericValue is given, besides the examples
MaxTextLen ==
  3

\* the characters the texts are made of
AmountChars ==
  { "$", "1", ",", "-", ".", "5", "a" }

\* the texts of at most MaxTextLen characters
AmountTexts ==
  UNION { [1..n -> AmountChars] : n \in 0..MaxTextLen }

\* the values parseNumericValue is given: every kind of field value
ParseInputs ==
  { VStr(s) : s \in AmountTexts }
  \cup { VStr(<<"$","1",",","2","3","4",".","5","0">>), VStr(<<"a","b","c">>), VStr(<<"U","S","D"," ","1","2",".","5","-">>) }
  \cup { VNum(0), VNum(125), VNum(1234500), VNum(-2500) }
  \cup { VArr(<< >>), VArr(<< <<"7">>, <<"i","g","n","o","r","e","d">> >>), VArr(<< <<"a","b","c">>, <<"7">> >>),
         VArr(<< <<"$","1",",","2","3","4",".","5","0">> >>) }
  \cup { VNone, VBool(TRUE), VBool(FALSE), VObj, VObjs(0), VObjs(2) }

\* before the call: the value is drawn
InitParse ==
  /\ InitWith({<< >>})
  /\ fnCalled = "none"
  /\ fnArgument \in ParseInputs
  /\ fnResult = << >>

\* parseNumericValue(value) returns
ParseNumericValue ==
  /\ fnCalled = "none"
  /\ fnCalled' = "parseNumericValue"
  /\ fnResult' = parseNumericValue(fnArgument)
  /\ UNCHANGED fnArgument
  /\ UNCHANGED <<evars, hvars, cvars, pvars>>

SpecParse ==
  InitParse /\ [][ParseNumericValue]_vars

\* ------------------------------------------------------------------------
\* EarningsService.formatEarningsMessage called on its own
\* ------------------------------------------------------------------------

\* the results formatEarningsMessage is given: totals as calculateUserEarnings
\* rounds them, with every combination of count, month and error
FormatResults ==
  { EarningsResult(usdc, token, total, month, error) :
      usdc \in {0, 10, 100000, 1234500},
      token \in {0, 380, 50000},
      total \in {0, 1, 2, 12},
      month \in {Undefined, <<"m","a","y">>, <<"J","u","n","e">>},
      error \in {Null, <<"T","r","e","a","s","u","r","y"," ","t","a","b","l","e"," ","i","s"," ","e","m","p","t","y">>,
                 <<"F","a","i","l","e","d"," ","t","o"," ","f","e","t","c","h"," ","T","r","e","a","s","u","r","y"," ","d","a","t","a",":"," ","F","a","i","l","e","d"," ","t","o"," ","g","e","t"," ","r","e","c","o","r","d","s"," ","f","r","o","m"," ","t","a","b","l","e",":"," ","T","r","e","a","s","u","r","y">>} }

\* the handles formatEarningsMessage is given
FormatHandles ==
  { <<"b","o","b">>, <<"a","l","i","c","e","_","9","9">> }

\* before the call: the result and the handle are drawn
InitFormat ==
  /\ InitWith({<< >>})
  /\ fnCalled = "none"
  /\ fnArgument \in [result : FormatResults, telegramHandle : FormatHandles]
  /\ fnResult = << >>

\* formatEarningsMessage(result, telegramHandle) returns
FormatEarningsMessage ==
  /\ fnCalled = "none"
  /\ fnCalled' = "formatEarningsMessage"
  /\ fnResult' = formatEarningsMessage(fnArgument.result, fnArgument.telegramHandle)
  /\ UNCHANGED fnArgument
  /\ UNCHANGED <<evars, hvars, cvars, pvars>>

SpecFormat ==
  InitFormat /\ [][FormatEarningsMessage]_vars

\* ------------------------------------------------------------------------
\* Properties of the pipeline (specification Spec)
\* ------------------------------------------------------------------------

\* the trigger-stripped, trimmed text of the pass, in its original casing
PassRemainder ==
  trim(replaceTrigger(ctxText))

\* the trigger-stripped, trimmed, lower-cased text of the pass
PassRemainderLower ==
  trim(replaceTrigger(toLowerCase(ctxText)))

\* the first reply of the pass is one only handleEarningsQuery sends
EarningsBranch ==
  /\ Len(replies) >= 1
  /\ \/ replies[1].text = noServiceMessage
     \/ replies[1].text = noHandleMessage
     \/ \E m \in {Undefined} \cup { monthNames[k] : k \in 1..Len(monthNames) } :
          replies[1].text = calculatingMessage(m)

\* the first reply of the pass is the help message
HelpBranch ==
  /\ Len(replies) >= 1
  /\ replies[1].text = helpMessage

\* the first reply of the pass acknowledges a search, and the search was made
SearchBranch ==
  /\ Len(replies) >= 1
  /\ Len(searchCalls) = 1
  /\ replies[1].text = searchingMessage(searchCalls[1])

\* C1: a pass whose trigger-stripped, lower-cased text matches an earnings
\* pattern is handled as an earnings query and never calls notion.searchPages,
\* also when the text matches a search template as well
C1_EarningsTakePrecedence ==
  (hpc # "idle" /\ isEarningsQuery(PassRemainderLower))
    => (EarningsBranch /\ searchCalls = << >>)

\* C1 witness: a finished pass for a text that matches both the first search
\* template and an earnings pattern
C1_Witness ==
  /\ hpc = "done"
  /\ isEarningsQuery(PassRemainderLower)
  /\ searchPatternAt(PassRemainder, 1) # 0
  /\ EarningsBranch
  /\ searchCalls = << >>

\* C2: every pass runs exactly one branch: earnings iff an earnings pattern
\* matches; otherwise help iff the trigger-stripped text is empty after
\* trimming; otherwise search, with the whole trigger-stripped text as the
\* phrase when none of the four specific templates matches
C2_ClassificationTotalExclusive ==
  hpc # "idle" =>
    /\ EarningsBranch <=> isEarningsQuery(PassRemainderLower)
    /\ HelpBranch <=> (~isEarningsQuery(PassRemainderLower) /\ PassRemainder = << >>)
    /\ SearchBranch <=> (~isEarningsQuery(PassRemainderLower) /\ PassRemainder # << >>)
    /\ (EarningsBranch \/ HelpBranch) => searchCalls = << >>
    /\ (SearchBranch /\ \A n \in 1..Len(searchPatterns) :
                          searchPatternAt(PassRemainder, n) = 0)
         => searchCalls[1] = PassRemainder

\* C2 witness: a search pass whose phrase is the whole trigger-stripped text
\* because no specific template matched
C2_Witness ==
  /\ hpc = "searching"
  /\ SearchBranch
  /\ \A n \in 1..Len(searchPatterns) : searchPatternAt(PassRemainder, n) = 0
  /\ searchCalls[1] = PassRemainder
  /\ PassRemainder # ctxText

\* the pass is an earnings pass: it has started and its text asks for earnings
EarningsPass ==
  hpc # "idle" /\ isEarningsQuery(PassRemainderLower)

\* the sender of the pass has no username
NoUsername ==
  ctxUsername = Undefined \/ ctxUsername = << >>

\* the pass has sent one reply only, and it carries the text
OnlyReplySays(text) ==
  /\ Len(replies) = 1
  /\ includes(replies[1].text, text)

\* the pass has not called calculateUserEarnings, so nothing was fetched
NoCalculation ==
  callCount = 0 /\ epc = "idle" /\ fetchResponse = NoResponse

\* C12 as stated: an earnings pass of a sender without username replies that
\* the Telegram handle could not be determined and never calls
\* calculateUserEarnings
C12_NoUsernameAlwaysHandleReply ==
  (EarningsPass /\ NoUsername)
    => /\ OnlyReplySays(<<"C","o","u","l","d"," ","n","o","t"," ","d","e","t","e","r","m","i","n","e"," ","y","o","u","r"," ","T","e","l","e","g","r","a","m"," ","h","a","n","d","l","e">>)
       /\ NoCalculation

\* C12 amended: an earnings pass of a sender without username never calls
\* calculateUserEarnings; it replies that the Telegram handle could not be
\* determined when the earnings service is there, and that the earnings
\* service is not available when it is not
C12_NoUsernameNoCalculation ==
  (EarningsPass /\ NoUsername)
    => /\ NoCalculation
       /\ hpc = "done"
       /\ earningsAvailable
            => OnlyReplySays(<<"C","o","u","l","d"," ","n","o","t"," ","d","e","t","e","r","m","i","n","e"," ","y","o","u","r"," ","T","e","l","e","g","r","a","m"," ","h","a","n","d","l","e">>)
       /\ ~earningsAvailable
            => OnlyReplySays(<<"E","a","r","n","i","n","g","s"," ","s","e","r","v","i","c","e"," ","i","s"," ","n","o","t"," ","a","v","a","i","l","a","b","l","e">>)

\* C12 witness: an earnings pass with the service there and no username ended
\* with the handle reply and without a calculation
C12_Witness ==
  /\ EarningsPass
  /\ NoUsername
  /\ earningsAvailable
  /\ hpc = "done"
  /\ OnlyReplySays(<<"C","o","u","l","d"," ","n","o","t"," ","d","e","t","e","r","m","i","n","e"," ","y","o","u","r"," ","T","e","l","e","g","r","a","m"," ","h","a","n","d","l","e">>)
  /\ NoCalculation

SearchDone ==
  hpc = "done" /\ Len(searchCalls) = 1

\* notion.searchPages returned pages without error
FoundPages ==
  searchResponse.error = Null /\ Len(searchResponse.pages) > 0

\* the text of the last reply of the pass
LastReplyText ==
  replies[Len(replies)].text

\* the positions of the text where sub begins
Occurrences(text, sub) ==
  { p \in 1..Len(text) : MatchAt(text, p, sub) }

\* how the entry numbered i begins: a new line, the number, ". **"
EntryMark(i) ==
  <<"\n">> \o natToString(i) \o <<".", " ", "*", "*">>

\* the number of entries a list of n pages shows
Shown(n) ==
  IF n < 5 THEN n ELSE 5

\* C14: for a search that returns n > 0 pages without error, the result
\* reply has exactly the entries numbered 1..min(n, 5), one of each, and ends
\* with "... and N more pages." with N = n - 5 if and only if n > 5
C14_ListCappedAtFive ==
  (SearchDone /\ FoundPages) =>
    LET n == Len(searchResponse.pages)
        text == LastReplyText
    IN /\ \A i \in 1..(n + 1) :
            Cardinality(Occurrences(text, EntryMark(i)))
              = IF i <= Shown(n) THEN 1 ELSE 0
       /\ Cardinality(Occurrences(text, <<"t","o"," ","g","e","t"," ","c","o","n","t","e","n","t","\n","\n">>)) = Shown(n)
       /\ includes(text, <<"m","o","r","e"," ","p","a","g","e","s",".">>) <=> n > 5
       /\ n > 5 =>
            LET note == <<"\n","\n",".",".","."," ","a","n","d"," ">> \o natToString(n - 5) \o <<" ","m","o","r","e"," ","p","a","g","e","s",".">>
            IN Occurrences(text, note) = { Len(text) - Len(note) + 1 }

\* C14 witness: a search returned six pages and the reply lists five entries
\* and ends with the note of one more page
C14_Witness ==
  /\ SearchDone
  /\ FoundPages
  /\ Len(searchResponse.pages) = 6
  /\ Occurrences(LastReplyText, EntryMark(5)) # {}
  /\ Occurrences(LastReplyText, EntryMark(6)) = {}
  /\ includes(LastReplyText, <<".",".","."," ","a","n","d"," ","1"," ","m","o","r","e"," ","p","a","g","e","s",".">>)

\* the part of the result reply that belongs to the entry numbered i of m:
\* from its mark to the mark of the next entry, or to the end of the reply
EntryText(text, i, m) ==
  LET start == CHOOSE p \in Occurrences(text, EntryMark(i)) : TRUE
      stop == IF i < m
              THEN (CHOOSE p \in Occurrences(text, EntryMark(i + 1)) : TRUE)
              ELSE Len(text)
  IN SubSeq(text, start, stop)

\* C15: the entry numbered i of the result reply is the i-th page of the
\* sequence notion.searchPages returned, for every i from 1 to min(n, 5):
\* it carries the id and the link of that page
C15_EntriesInReturnedOrder ==
  (SearchDone /\ FoundPages) =>
    LET pages == searchResponse.pages
        m == Shown(Len(pages))
    IN \A i \in 1..m :
         LET entry == EntryText(LastReplyText, i, m)
         IN /\ includes(entry, <<"/","p","a","g","e"," ">> \o pages[i].id \o <<"u0060">>)
            /\ includes(entry, <<"[","V","i","e","w"," ","P","a","g","e","]","(">> \o pages[i].url \o <<")">>)
            /\ \A j \in 1..Len(pages) :
                 pages[j].id # pages[i].id
                   => ~includes(entry, <<"/","p","a","g","e"," ">> \o pages[j].id \o <<"u0060">>)

\* C15 witness: the pages came in the order p3, p2, p1 and the entries 1, 2, 3
\* of the reply are p3, p2, p1
C15_Witness ==
  /\ SearchDone
  /\ FoundPages
  /\ Len(searchResponse.pages) = 3
  /\ searchResponse.pages[1].id = <<"p","3">>
  /\ searchResponse.pages[3].id = <<"p","1">>
  /\ includes(EntryText(LastReplyText, 1, 3), <<"/","p","a","g","e"," ","p","3">>)
  /\ includes(EntryText(LastReplyText, 3, 3), <<"/","p","a","g","e"," ","p","1">>)

\* the reply is the error reply for the error text
IsErrorReply(text, error) ==
  /\ MatchAt(text, 2, <<" ","E","r","r","o","r",":"," ">> \o error)
  /\ Len(text) = 1 + Len(<<" ","E","r","r","o","r",":"," ">>) + Len(error)

\* the reply is the one for a search without results
IsNoPagesReply(text) ==
  /\ includes(text, <<"N","o"," ","p","a","g","e","s"," ","f","o","u","n","d"," ","f","o","r"," ","\"">>)
  /\ includes(text, <<"T","r","y"," ","r","e","p","h","r","a","s","i","n","g"," ","y","o","u","r"," ","s","e","a","r","c","h">>)

\* the reply is a result list
IsListReply(text) ==
  /\ includes(text, <<" ","p","a","g","e","(","s",")"," ","f","o","r"," ","\"">>)
  /\ Occurrences(text, EntryMark(1)) # {}

C17_NoReplyOverLimit ==
  \A i \in 1..Len(replies) : Len(replies[i].text) <= 4000


\* ------------------------------------------------------------------------
\* Properties of calculateUserEarnings (specification SpecEarnings)
\* ------------------------------------------------------------------------

\* the latest call of calculateUserEarnings has returned
Returned ==
  epc = "returned"

\* the latest call fetched the Treasury table and the fetch reported no error
FetchedOk ==
  fetchResponse.error = Null

\* the latest call fetched the Treasury table and the fetch reported an error
FetchFailed ==
  fetchResponse.error # Null /\ fetchResponse.error # Undefined

\* the records the fetch of the latest call returned
FetchedRecords ==
  fetchResponse.records

\* the latest call was given a month
MonthGiven ==
  callMonth # Undefined

\* the Telegram field of the record names the handle: the field (an array
\* joined into one string) and the handle agree once one leading "@" is
\* removed from each and both are lower-cased; no field, no match
NamesHandle(record, handle) ==
  /\ record.Telegram.t # "none"
  /\ LET value == IF record.Telegram.t = "arr" THEN join(record.Telegram.a)
                  ELSE record.Telegram.s
     IN toLowerCase(stripAt(value)) = toLowerCase(stripAt(handle))

\* the "Paid out" field of the record, lower-cased, contains the lower-cased
\* month; no field, no match
PaidOutMentions(record, monthName) ==
  /\ record.PaidOut.t # "none"
  /\ includes(toLowerCase(record.PaidOut.s), toLowerCase(monthName))

\* the fetched records that pass the handle filter and, when a month is
\* given, the month filter
Kept ==
  SelectSeq(FetchedRecords,
            LAMBDA record : /\ NamesHandle(record, callHandle)
                            /\ MonthGiven => PaidOutMentions(record, callMonth))

\* the bucket the Currency field of the record names, compared
\* case-insensitively: "USDC", "TOKEN" (also for TOKENS) or "none"
BucketOf(record) ==
  IF record.Currency.t = "none" THEN "none"
  ELSE IF toUpperCase(record.Currency.s) = <<"U","S","D","C">> THEN "USDC"
  ELSE IF toUpperCase(record.Currency.s) \in { <<"T","O","K","E","N">>, <<"T","O","K","E","N","S">> } THEN "TOKEN"
  ELSE "none"

\* the sum of the parsed amounts of the records of the bucket, of any sign
RECURSIVE SumOfAmounts(_, _)
SumOfAmounts(records, bucket) ==
  IF Len(records) = 0 THEN 0
  ELSE (IF BucketOf(Head(records)) = bucket
        THEN parseNumericValue(Head(records).Payout) ELSE 0)
       + SumOfAmounts(Tail(records), bucket)

\* the sum of the positive parsed amounts of the records of the bucket
RECURSIVE SumOfPositiveAmounts(_, _)
SumOfPositiveAmounts(records, bucket) ==
  IF Len(records) = 0 THEN 0
  ELSE (IF /\ BucketOf(Head(records)) = bucket
           /\ parseNumericValue(Head(records).Payout) > 0
        THEN parseNumericValue(Head(records).Payout) ELSE 0)
       + SumOfPositiveAmounts(Tail(records), bucket)

\* total is x rounded to two decimals, halves upwards (amounts in thousandths)
IsRounded(total, x) ==
  /\ total % 10 = 0
  /\ total - x <= 5
  /\ x - total < 5

\* the result has zero totals and counts no record
ZeroTotals(res) ==
  res.usdcTotal = 0 /\ res.tokenTotal = 0 /\ res.totalRecords = 0

C4_NoMatchIsEmptyResult ==
  (/\ Returned
   /\ FetchedOk
   /\ Len(FetchedRecords) > 0
   /\ \/ \A i \in 1..Len(FetchedRecords) : ~NamesHandle(FetchedRecords[i], callHandle)
      \/ /\ MonthGiven
         /\ \A i \in 1..Len(FetchedRecords) :
              NamesHandle(FetchedRecords[i], callHandle)
                => ~PaidOutMentions(FetchedRecords[i], callMonth))
    => lastResult = EarningsResult(0, 0, 0, callMonth, Null)

\* C4 witness: a month was given, a record names the handle, none of them
\* passes the month filter, and the empty result carries the month
C4_Witness ==
  /\ Returned
  /\ FetchedOk
  /\ MonthGiven
  /\ \E i \in 1..Len(FetchedRecords) : NamesHandle(FetchedRecords[i], callHandle)
  /\ Len(Kept) = 0
  /\ lastResult = EarningsResult(0, 0, 0, callMonth, Null)

\* C5: without a month, the records the call counts are exactly the fetched
\* records whose Telegram field names the handle, case- and "@"-insensitively
C5_HandleFilter ==
  (Returned /\ FetchedOk /\ Len(FetchedRecords) > 0 /\ ~MonthGiven)
    => /\ lastResult.error = Null
       /\ lastResult.totalRecords =
            Cardinality({ i \in 1..Len(FetchedRecords) :
                            NamesHandle(FetchedRecords[i], callHandle) })

\* C5 witness: the handle "alice" against a record of "@Alice" and a record
\* without Telegram field: one record is counted
C5_Witness ==
  /\ Returned
  /\ FetchedOk
  /\ ~MonthGiven
  /\ callHandle = <<"a","l","i","c","e">>
  /\ Len(FetchedRecords) = 2
  /\ FetchedRecords[1].Telegram = VStr(<<"@","A","l","i","c","e">>)
  /\ FetchedRecords[2].Telegram = VNone
  /\ lastResult.totalRecords = 1

\* C6: with a month, the count and the totals are those of just the records
\* that name the handle and whose "Paid out" field, lower-cased, contains the
\* lower-cased month, so the other records add to neither total nor to the
\* count; the two bob records with month "may" give USDC 100, TOKEN 0,
\* count 1
C6_MonthFilter ==
  (Returned /\ FetchedOk /\ Len(FetchedRecords) > 0 /\ MonthGiven)
    => /\ lastResult.error = Null
       /\ lastResult.totalRecords = Len(Kept)
       /\ Len(Kept) > 0 =>
            /\ IsRounded(lastResult.usdcTotal, SumOfPositiveAmounts(Kept, "USDC"))
            /\ IsRounded(lastResult.tokenTotal, SumOfPositiveAmounts(Kept, "TOKEN"))
       /\ (/\ FetchedRecords =
                << Record(VStr(<<"@","b","o","b">>), VStr(<<"1","0","0">>), VStr(<<"U","S","D","C">>), VStr(<<"M","a","y"," ","2","5">>)),
                   Record(VStr(<<"@","b","o","b">>), VStr(<<"5","0">>), VStr(<<"T","O","K","E","N">>), VStr(<<"J","u","n","e"," ","2","5">>)) >>
           /\ callHandle = <<"b","o","b">>
           /\ callMonth = <<"m","a","y">>)
            => /\ lastResult.usdcTotal = 100000
               /\ lastResult.tokenTotal = 0
               /\ lastResult.totalRecords = 1

\* C6 witness: the scenario of the two bob records with month "may"
C6_Witness ==
  /\ Returned
  /\ FetchedOk
  /\ FetchedRecords =
       << Record(VStr(<<"@","b","o","b">>), VStr(<<"1","0","0">>), VStr(<<"U","S","D","C">>), VStr(<<"M","a","y"," ","2","5">>)),
          Record(VStr(<<"@","b","o","b">>), VStr(<<"5","0">>), VStr(<<"T","O","K","E","N">>), VStr(<<"J","u","n","e"," ","2","5">>)) >>
  /\ callHandle = <<"b","o","b">>
  /\ callMonth = <<"m","a","y">>
  /\ lastResult = EarningsResult(100000, 0, 1, <<"m","a","y">>, Null)

\* the parsed amount of the record if the Currency field names the bucket,
\* else nothing
AmountIn(record, bucket) ==
  IF BucketOf(record) = bucket THEN parseNumericValue(record.Payout) ELSE 0

\* the parsed amount of the record if it is positive and the Currency field
\* names the bucket, else nothing
PositiveAmountIn(record, bucket) ==
  IF BucketOf(record) = bucket /\ parseNumericValue(record.Payout) > 0
  THEN parseNumericValue(record.Payout) ELSE 0

C9_TotalRecordsCountsKept ==
  (Returned /\ lastResult.error = Null)
    => lastResult.totalRecords = Len(Kept)

\* C9 witness: two records are kept and counted, one of them adds to neither
\* total
C9_Witness ==
  /\ Returned
  /\ lastResult.error = Null
  /\ Len(Kept) = 2
  /\ \E i \in 1..2 : /\ PositiveAmountIn(Kept[i], "USDC") = 0
                     /\ PositiveAmountIn(Kept[i], "TOKEN") = 0
  /\ lastResult.totalRecords = 2
  /\ lastResult.usdcTotal + lastResult.tokenTotal > 0

Parsed ==
  fnCalled = "parseNumericValue"

\* the characters a text keeps when it is stripped for parsing
NumericChars ==
  { "0", "1", "2", "3", "4", "5", "6", "7", "8", "9", "-", "." }

\* the text without every character that is not a digit, "-" or "."
Stripped(s) ==
  SelectSeq(s, LAMBDA c : c \in NumericChars)

\* the number of the decimal digit c
DigitOf(c) ==
  CASE c = "0" -> 0 [] c = "1" -> 1 [] c = "2" -> 2 [] c = "3" -> 3
    [] c = "4" -> 4 [] c = "5" -> 5 [] c = "6" -> 6 [] c = "7" -> 7
    [] c = "8" -> 8 [] c = "9" -> 9

\* the natural number a sequence of digits writes
RECURSIVE NatOf(_)
NatOf(ds) ==
  IF Len(ds) = 0 THEN 0
  ELSE 10 * NatOf(SubSeq(ds, 1, Len(ds) - 1)) + DigitOf(ds[Len(ds)])

\* the text is a decimal literal: an optional "-", then digits with at most
\* one "." among them, at least one digit, and nothing else
IsDecimal(s) ==
  LET body == IF Len(s) > 0 /\ s[1] = "-" THEN Tail(s) ELSE s
  IN /\ \A i \in 1..Len(body) : body[i] \notin {"-"}
     /\ Cardinality({ i \in 1..Len(body) : body[i] = "." }) <= 1
     /\ \E i \in 1..Len(body) : body[i] # "."
     /\ \A i \in 1..Len(body) : body[i] \in NumericChars

\* the value, in thousandths, of a decimal literal of at most three decimals
DecimalValue(s) ==
  LET neg == s[1] = "-"
      body == IF neg THEN Tail(s) ELSE s
      dots == { i \in 1..Len(body) : body[i] = "." }
      d == IF dots = {} THEN Len(body) + 1 ELSE CHOOSE i \in dots : TRUE
      whole == SubSeq(body, 1, d - 1)
      decimals == SubSeq(body, d + 1, Len(body))
      padded == SubSeq(decimals \o <<"0", "0", "0">>, 1, 3)
      mag == 1000 * NatOf(whole) + NatOf(padded)
  IN IF neg THEN 0 - mag ELSE mag

\* what parsing a stripped text gives: the value of its longest beginning
\* that is a decimal literal, and 0 when no beginning is one
ParsedOrZero(s) ==
  LET ks == { k \in 1..Len(s) : IsDecimal(SubSeq(s, 1, k)) }
  IN IF ks = {} THEN 0
     ELSE DecimalValue(SubSeq(s, 1, CHOOSE k \in ks : \A j \in ks : j <= k))

\* C11: parseNumericValue returns a number unchanged; for a text the value
\* parsed from the text stripped of all but digits, "-" and ".", 0 when the
\* parse fails; for a non-empty array the result for its first element; 0
\* for an empty array, null, undefined or any other value.  "$1,234.50"
\* gives 1234.5, ["7", "ignored"] gives 7, null gives 0, "abc" gives 0
C11_ParseNumericValue ==
  Parsed =>
    /\ fnArgument.t = "num" => fnResult = fnArgument.n
    /\ fnArgument.t = "str" => fnResult = ParsedOrZero(Stripped(fnArgument.s))
    /\ (fnArgument.t = "arr" /\ Len(fnArgument.a) > 0)
         => fnResult = ParsedOrZero(Stripped(fnArgument.a[1]))
    /\ (fnArgument.t = "arr" /\ Len(fnArgument.a) = 0) => fnResult = 0
    /\ fnArgument.t \in {"none", "bool", "obj", "objs"} => fnResult = 0
    /\ fnArgument = VStr(<<"$","1",",","2","3","4",".","5","0">>) => fnResult = 1234500
    /\ fnArgument = VArr(<< <<"7">>, <<"i","g","n","o","r","e","d">> >>) => fnResult = 7000
    /\ fnArgument = VNone => fnResult = 0
    /\ fnArgument = VStr(<<"a","b","c">>) => fnResult = 0

\* C11 witness: the text "$1,234.50" was parsed to 1234.5
C11_Witness ==
  /\ Parsed
  /\ fnArgument = VStr(<<"$","1",",","2","3","4",".","5","0">>)
  /\ fnResult = 1234500


\* ------------------------------------------------------------------------
\* Properties of the /page and /table commands (specification SpecCommands)
\* ------------------------------------------------------------------------

\* the body the collaborator returned to the command
Body ==
  commandResponse.content

\* a command ran to its end with a body to send: the collaborator reported no
\* error and the body is not blank
BodySent ==
  /\ cpc = "done"
  /\ commandResponse.error = Null
  /\ \E k \in 1..Len(Body) : Body[k] \notin {" ", "\n", "\t"}

\* the replies of the command after its acknowledgement
BodyReplies ==
  Tail(replies)

\* what follows the emoji in the label of part i of total
PartLabel(i, total) ==
  <<" ","P","a","r","t"," ">> \o natToString(i) \o <<"/">> \o natToString(total) \o <<":","\n","\n">>

\* the text of a reply after the emoji and the label of part i of total
PartBody(text, i, total) ==
  SubSeq(text, 3 + Len(PartLabel(i, total)), Len(text))

\* the bodies of the parts i..total of the replies, one after the other
RECURSIVE BodiesFrom(_, _, _)
BodiesFrom(rs, i, total) ==
  IF i > total THEN << >>
  ELSE PartBody(rs[i].text, i, total) \o BodiesFrom(rs, i + 1, total)

Formatted ==
  fnCalled = "formatEarningsMessage"

\* the result the message was made from
FormattedResult ==
  fnArgument.result

\* C19: for a result without error that counts records, the message has the
\* USDC line if and only if usdcTotal is not zero and the Tokens line if and
\* only if tokenTotal is not zero; with both totals zero it has the line
\* "Found N record(s) but no valid payouts." and not the line "Based on N
\* payout record(s)", otherwise the latter and not the former
C19_LinesForNonzeroTotals ==
  (Formatted /\ FormattedResult.error = Null /\ FormattedResult.totalRecords > 0) =>
    LET res == FormattedResult
        count == natToString(res.totalRecords)
        found == <<" ","F","o","u","n","d"," ">> \o count \o <<" ","r","e","c","o","r","d","(","s",")"," ","b","u","t"," ","n","o"," ","v","a","l","i","d"," ","p","a","y","o","u","t","s",".">>
        based == <<" ","B","a","s","e","d"," ","o","n"," ">> \o count \o <<" ","p","a","y","o","u","t"," ","r","e","c","o","r","d","(","s",")">>
    IN /\ includes(fnResult, <<" ","*","*","U","S","D","C",":","*","*"," ","$">>) <=> res.usdcTotal # 0
       /\ includes(fnResult, <<" ","*","*","T","o","k","e","n","s",":","*","*"," ">>) <=> res.tokenTotal # 0
       /\ includes(fnResult, found) <=> (res.usdcTotal = 0 /\ res.tokenTotal = 0)
       /\ includes(fnResult, based) <=> ~(res.usdcTotal = 0 /\ res.tokenTotal = 0)
       /\ includes(fnResult, <<"E","a","r","n","i","n","g","s"," ","S","u","m","m","a","r","y"," ","f","o","r"," ","@">> \o fnArgument.telegramHandle)

\* C19 witness: a result of two records with tokens only: the Tokens line
\* and the "Based on" line, no USDC line
C19_Witness ==
  /\ Formatted
  /\ FormattedResult.error = Null
  /\ FormattedResult.totalRecords = 2
  /\ FormattedResult.usdcTotal = 0
  /\ FormattedResult.tokenTotal = 380
  /\ includes(fnResult, <<" ","*","*","T","o","k","e","n","s",":","*","*"," ","0",".","3","8","\n">>)
  /\ ~includes(fnResult, <<"U","S","D","C">>)
  /\ includes(fnResult, <<" ","B","a","s","e","d"," ","o","n"," ","2"," ","p","a","y","o","u","t"," ","r","e","c","o","r","d","(","s",")">>)

\* a month was requested: the result carries a month that is not empty
MonthRequested ==
  FormattedResult.month # Undefined /\ FormattedResult.month # << >>

\* C20: for a result with an error the message is the error line, whatever
\* the other fields; for a result without error that counts no record it is
\* "No earnings found for @handle", followed by " for <month>" if and only
\* if a month was requested, and a full stop
C20_ErrorLineThenNoEarnings ==
  Formatted =>
    /\ FormattedResult.error # Null
         => /\ SubSeq(fnResult, 3, Len(fnResult)) = <<" ">> \o FormattedResult.error
            /\ ~includes(fnResult, <<"e","a","r","n","i","n","g","s"," ","f","o","u","n","d">>)
            /\ ~includes(fnResult, <<"E","a","r","n","i","n","g","s"," ","S","u","m","m","a","r","y">>)
    /\ (FormattedResult.error = Null /\ FormattedResult.totalRecords = 0)
         => /\ SubSeq(fnResult, 5, Len(fnResult))
                 = <<" ","N","o"," ","e","a","r","n","i","n","g","s"," ","f","o","u","n","d"," ","f","o","r"," ","@">> \o fnArgument.telegramHandle
                   \o (IF MonthRequested THEN <<" ","f","o","r"," ">> \o FormattedResult.month
                       ELSE << >>)
                   \o <<".">>
            /\ includes(fnResult, <<" ","f","o","r"," ">> \o FormattedResult.month \o <<".">>)
                 <=> MonthRequested

\* C20 witness: a result with an error and totals above zero gave the error
\* line alone
C20_Witness ==
  /\ Formatted
  /\ FormattedResult.error = <<"T","r","e","a","s","u","r","y"," ","t","a","b","l","e"," ","i","s"," ","e","m","p","t","y">>
  /\ FormattedResult.usdcTotal > 0
  /\ FormattedResult.totalRecords > 0
  /\ SubSeq(fnResult, 3, Len(fnResult)) = <<" ","T","r","e","a","s","u","r","y"," ","t","a","b","l","e"," ","i","s"," ","e","m","p","t","y">>


\* ------------------------------------------------------------------------
\* The trigger stripping of extractSearchQuery and extractEarningsQuery
\* called on its own
\* ------------------------------------------------------------------------

\* textToProcess.replace(/^hey mylo[,\s]*/i, "").trim()
withoutTrigger(textToProcess) ==
  trim(replaceTrigger(textToProcess))

\* every casing of the activation phrase
Casings ==
  { [i \in 1..Len(heyMylo) |-> IF i \in U THEN UpperChar(heyMylo[i]) ELSE heyMylo[i]] :
      U \in SUBSET {1, 2, 3, 5, 6, 7, 8} }

\* the most commas and whitespace characters right after the phrase
MaxSeparators ==
  2

\* the runs of commas and whitespace that follow the phrase
Separators ==
  UNION { [1..n -> {",", " ", "\n", "\t"}] : n \in 0..MaxSeparators }

\* what follows them: nothing, or a text that starts with another character
Remainders ==
  { << >>, <<"b","a","n","a","n","a">>, <<"B","a","n","a","n","a",","," ","s","p","l","i","t"," ","\n">>, <<"r","d">>, <<"H","o","w"," ","m","u","c","h"," ","h","a","v","e"," ","I"," ","e","a","r","n","e","d"," ","i","n"," ","M","a","y","?","	">> }

\* before the call: the message is drawn as its three parts
InitTrigger ==
  /\ InitWith({<< >>})
  /\ fnCalled = "none"
  /\ fnArgument \in [phrase : Casings, separators : Separators, rest : Remainders]
  /\ fnResult = << >>

\* both extractors compute withoutTrigger from the message: extractSearchQuery
\* from the original text, extractEarningsQuery from its lower-cased form
WithoutTrigger ==
  /\ fnCalled = "none"
  /\ fnCalled' = "withoutTrigger"
  /\ LET text == fnArgument.phrase \o fnArgument.separators \o fnArgument.rest
     IN fnResult' = [search |-> withoutTrigger(orElse(text, toLowerCase(text))),
                     earnings |-> withoutTrigger(toLowerCase(orElse(text, toLowerCase(text))))]
  /\ UNCHANGED fnArgument
  /\ UNCHANGED <<evars, hvars, cvars, pvars>>

SpecTrigger ==
  InitTrigger /\ [][WithoutTrigger]_vars

\* ------------------------------------------------------------------------
\* Properties of the trigger stripping (specification SpecTrigger)
\* ------------------------------------------------------------------------

\* s without the whitespace at its end
RECURSIVE WithoutTrailingSpace(_)
WithoutTrailingSpace(s) ==
  IF s = << >> THEN << >>
  ELSE IF s[Len(s)] \in {" ", "\n", "\t"}
       THEN WithoutTrailingSpace(SubSeq(s, 1, Len(s) - 1))
  ELSE s

\* C21: for every casing of "hey mylo" at the start of a message, the
\* remainder both extractors classify is what follows the phrase and the
\* commas and whitespace right after it (without the whitespace at its end,
\* lower-cased for the earnings extractor); it is empty when nothing else
\* follows
C21_RemainderExcludesTrigger ==
  fnCalled = "withoutTrigger" =>
    /\ fnResult.search = WithoutTrailingSpace(fnArgument.rest)
    /\ fnResult.earnings = [i \in 1..Len(fnResult.search) |-> LowerChar(fnResult.search[i])]
    /\ fnArgument.rest = << >> => (fnResult.search = << >> /\ fnResult.earnings = << >>)

\* C21 witness: a mixed casing, a comma and a line end after it, and a text
\* that keeps its own comma
C21_Witness ==
  /\ fnCalled = "withoutTrigger"
  /\ fnArgument.phrase = <<"h","E","y"," ","M","y","L","o">>
  /\ fnArgument.separators = <<",", "\n">>
  /\ fnArgument.rest = <<"B","a","n","a","n","a",","," ","s","p","l","i","t"," ","\n">>
  /\ fnResult.search = <<"B","a","n","a","n","a",","," ","s","p","l","i","t">>
  /\ fnResult.earnings = <<"b","a","n","a","n","a",","," ","s","p","l","i","t">>


\* ------------------------------------------------------------------------
\* extractSearchQuery called on its own
\* ------------------------------------------------------------------------

\* how the message starts
QueryTriggers ==
  { << >>, <<"H","e","y"," ","M","y","l","o",","," ">> }

\* the words before the keyword
QueryLeads ==
  { << >>, <<"c","a","n"," ","y","o","u"," ">>, <<"C","a","n"," ","Y","o","u"," ">>, <<"c","a","n"," "," ","y","o","u"," ">>, <<"p","l","e","a","s","e"," ">>, <<"i"," ">>, <<"h","e","l","p"," ","m","e"," ">>, <<"H","e","l","p"," "," ","M","e"," ">> }

\* the first word after them
QueryKeywords ==
  { <<"s","e","a","r","c","h">>, <<"f","i","n","d">>, <<"F","i","n","d">>, <<"l","o","o","k">>, <<"n","e","e","d">>, <<"w","a","n","t">>, <<"b","a","n","a","n","a">>, <<"s","e","a","r","c","h","i","n","g">> }

\* what separates it from the phrase
QueryMiddles ==
  { << >>, <<" ">>, <<" ","f","o","r"," ">>, <<" ","t","o"," ","f","i","n","d"," ">> }

\* the phrase asked for
QueryPhrases ==
  { << >>, <<"X">>, <<"p","r","o","j","e","c","t"," ","d","o","c","s">>, <<"L","a","t","a","m","\n","P","r","o","p","o","s","a","l","s">> }

\* the messages extractSearchQuery is given, as their parts; a phrase needs
\* something before it and a separator a phrase after it
QueryInputs ==
  { q \in [trigger : QueryTriggers, lead : QueryLeads, keyword : QueryKeywords,
           middle : QueryMiddles, phrase : QueryPhrases] :
      (q.middle = << >>) <=> (q.phrase = << >>) }

\* the text of such a message
QueryText(q) ==
  q.trigger \o q.lead \o q.keyword \o q.middle \o q.phrase

\* before the call: the message is drawn
InitQuery ==
  /\ InitWith({<< >>})
  /\ fnCalled = "none"
  /\ fnArgument \in QueryInputs
  /\ fnResult = << >>

\* extractSearchQuery(messageText, originalText) returns, called as
\* handleMyloMessage calls it
ExtractSearchQuery ==
  /\ fnCalled = "none"
  /\ fnCalled' = "extractSearchQuery"
  /\ LET messageText == toLowerCase(QueryText(fnArgument))
         originalText == orElse(QueryText(fnArgument), messageText)
     IN fnResult' = extractSearchQuery(messageText, originalText)
  /\ UNCHANGED fnArgument
  /\ UNCHANGED <<evars, hvars, cvars, pvars>>

SpecQuery ==
  InitQuery /\ [][ExtractSearchQuery]_vars

\* ------------------------------------------------------------------------
\* Properties of extractSearchQuery (specification SpecQuery)
\* ------------------------------------------------------------------------

\* the first of the four specific templates the message fits, 5 when it fits
\* none: the words before the keyword are the template's own or absent
\* ("can you" with its single space, "help me" with any spaces), the keyword
\* is one of the template's, and a phrase on one line follows
FirstTemplate(q) ==
  LET lead == [i \in 1..Len(q.lead) |-> LowerChar(q.lead[i])]
      kw == [i \in 1..Len(q.keyword) |-> LowerChar(q.keyword[i])]
      fits(n) ==
        /\ q.phrase # << >>
        /\ \A i \in 1..Len(q.phrase) : q.phrase[i] # "\n"
        /\ CASE n = 1 -> lead \in {<< >>, <<"c","a","n"," ","y","o","u"," ">>} /\ kw \in {<<"s","e","a","r","c","h">>, <<"f","i","n","d">>, <<"l","o","o","k">>}
             [] n = 2 -> lead \in {<< >>, <<"p","l","e","a","s","e"," ">>} /\ kw \in {<<"s","e","a","r","c","h">>, <<"f","i","n","d">>, <<"l","o","o","k">>}
             [] n = 3 -> lead \in {<< >>, <<"i"," ">>} /\ kw \in {<<"n","e","e","d">>, <<"w","a","n","t">>}
             [] n = 4 -> lead \in {<< >>, <<"h","e","l","p"," ","m","e"," ">>, <<"h","e","l","p"," "," ","m","e"," ">>} /\ kw \in {<<"f","i","n","d">>, <<"s","e","a","r","c","h">>}
  IN IF \E n \in 1..4 : fits(n)
     THEN CHOOSE n \in 1..4 : fits(n) /\ \A k \in 1..(n - 1) : ~fits(k)
     ELSE 5

\* the phrase the message asks for: what follows the keyword and the
\* template's own filler words ("for", or "to find" after need and want);
\* the whole message after the trigger when it fits no specific template
ExpectedPhrase(q) ==
  LET n == FirstTemplate(q)
      filler == IF n = 3 THEN <<" ","t","o"," ","f","i","n","d"," ">> ELSE <<" ","f","o","r"," ">>
  IN IF n = 5 THEN q.lead \o q.keyword \o q.middle \o q.phrase
     ELSE IF q.middle \in {<<" ">>, filler} THEN q.phrase
     ELSE Tail(q.middle) \o q.phrase

\* C22: extractSearchQuery returns the capture of the first template, in the
\* order of the source, that the original-cased remainder fits, and the whole
\* remainder in its original casing when it fits none of the four specific
\* templates: never the longer capture of the catch-all
C22_FirstTemplateWins ==
  fnCalled = "extractSearchQuery" =>
    LET q == fnArgument
        rest == q.lead \o q.keyword \o q.middle \o q.phrase
    IN /\ fnResult = ExpectedPhrase(q)
       /\ rest = <<"s","e","a","r","c","h"," ","f","o","r"," ","p","r","o","j","e","c","t"," ","d","o","c","s">> => fnResult = <<"p","r","o","j","e","c","t"," ","d","o","c","s">>
       /\ rest \in {<<"p","l","e","a","s","e"," ","f","i","n","d"," ","X">>, <<"i"," ","n","e","e","d"," ","t","o"," ","f","i","n","d"," ","X">>, <<"h","e","l","p"," ","m","e"," ","f","i","n","d"," ","X">>}
            => fnResult = <<"X">>
       /\ rest = <<"b","a","n","a","n","a">> => fnResult = <<"b","a","n","a","n","a">>
       /\ FirstTemplate(q) = 5 => fnResult = rest

\* C22 witness: a message that fits the first template and the catch-all,
\* answered with the capture of the first
C22_Witness ==
  /\ fnCalled = "extractSearchQuery"
  /\ QueryText(fnArgument) = <<"H","e","y"," ","M","y","l","o",","," ","C","a","n"," ","Y","o","u"," ","F","i","n","d"," ","f","o","r"," ","p","r","o","j","e","c","t"," ","d","o","c","s">>
  /\ FirstTemplate(fnArgument) = 1
  /\ fnResult = <<"p","r","o","j","e","c","t"," ","d","o","c","s">>


\* ------------------------------------------------------------------------
\* extractEarningsQuery called on its own
\* ------------------------------------------------------------------------

\* the earnings questions
EarningsQuestions ==
  { <<"h","o","w"," ","m","u","c","h"," ","h","a","v","e"," ","i"," ","e","a","r","n","e","d">>, <<"W","h","a","t"," ","h","a","v","e"," ","I"," ","m","a","d","e">>, <<"H","o","w"," ","m","u","c","h"," ","I"," ","m","a","d","e">>, <<"m","y"," ","e","a","r","n","i","n","g","s">>, <<"s","h","o","w"," ","t","o","t","a","l"," ","e","a","r","n","i","n","g","s">> }

\* what links the question to a month word
MonthLinks ==
  { <<" ","i","n"," ">>, <<" ","f","o","r"," ">>, <<" ","d","u","r","i","n","g"," ">>, <<" ","I","n"," ">>, <<" ","w","i","t","h">> \o <<"i","n"," ">>, <<" ","o","n"," ">>, <<" ","i","n","	">>, <<" ","i","n"," "," ">>, <<" ">> }

\* month names as written in messages, and words that are none
MonthWords ==
  { monthNames[k] : k \in 1..Len(monthNames) }
  \cup { <<"M","a","y">>, <<"J","U","N","E">>, <<"m","a","y","h","e","m">>, <<"m","a">>, <<"s","u","m","m","e","r">>, <<"s","e","p","t">> }

\* what ends the message
QuestionEnds ==
  { << >>, <<"?">>, <<" ","a","n","d"," ","f","o","r"," ","j","u","n","e">> }

\* the messages extractEarningsQuery is given, as their parts: a question
\* alone, or with a link and a month word
EarningsInputs ==
  [trigger : QueryTriggers, question : EarningsQuestions, link : {<< >>},
   word : {<< >>}, end : QuestionEnds]
  \cup [trigger : QueryTriggers, question : EarningsQuestions, link : MonthLinks,
        word : MonthWords, end : QuestionEnds]

\* before the call: the message is drawn
InitMonth ==
  /\ InitWith({<< >>})
  /\ fnCalled = "none"
  /\ fnArgument \in EarningsInputs
  /\ fnResult = << >>

\* extractEarningsQuery(messageText, originalText) returns, called as
\* handleMyloMessage calls it
ExtractEarningsQuery ==
  /\ fnCalled = "none"
  /\ fnCalled' = "extractEarningsQuery"
  /\ LET text == fnArgument.trigger \o fnArgument.question \o fnArgument.link
                   \o fnArgument.word \o fnArgument.end
         messageText == toLowerCase(text)
         originalText == orElse(text, messageText)
     IN fnResult' = extractEarningsQuery(messageText, originalText)
  /\ UNCHANGED fnArgument
  /\ UNCHANGED <<evars, hvars, cvars, pvars>>

SpecMonth ==
  InitMonth /\ [][ExtractEarningsQuery]_vars

\* ------------------------------------------------------------------------
\* Properties of extractEarningsQuery (specification SpecMonth)
\* ------------------------------------------------------------------------

\* the twelve English month names, in lower case
TwelveMonths ==
  { <<"j","a","n","u","a","r","y">>, <<"f","e","b","r","u","a","r","y">>, <<"m","a","r","c","h">>, <<"a","p","r","i","l">>, <<"m","a","y">>, <<"j","u","n","e">>, <<"j","u","l","y">>, <<"a","u","g","u","s","t">>,
    <<"s","e","p","t","e","m","b","e","r">>, <<"o","c","t","o","b","e","r">>, <<"n","o","v","e","m","b","e","r">>, <<"d","e","c","e","m","b","e","r">> }

\* "in", "for" or "during", a space and the month name m occur in w
MentionsMonth(w, m) ==
  \E p \in { <<"i","n"," ">>, <<"f","o","r"," ">>, <<"d","u","r","i","n","g"," ">> } :
    \E i \in 1..Len(w) :
      /\ i + Len(p) + Len(m) - 1 <= Len(w)
      /\ SubSeq(w, i, i + Len(p) + Len(m) - 1) = p \o m

\* the remainder of the message after its trigger, in lower case
QuestionLower ==
  LET rest == fnArgument.question \o fnArgument.link \o fnArgument.word \o fnArgument.end
  IN [i \in 1..Len(rest) |-> LowerChar(rest[i])]

\* C23: an earnings query has a month if and only if its lower-cased
\* remainder contains "in", "for" or "during", a space and one of the twelve
\* month names; the month is then such a name in lower case, and the query is
\* unfiltered otherwise
C23_MonthIffMentioned ==
  fnCalled = "extractEarningsQuery" =>
    /\ ~fnResult.isNull
    /\ fnResult.month # Undefined <=> \E m \in TwelveMonths : MentionsMonth(QuestionLower, m)
    /\ fnResult.month # Undefined =>
         (fnResult.month \in TwelveMonths /\ MentionsMonth(QuestionLower, fnResult.month))
    /\ QuestionLower = <<"h","o","w"," ","m","u","c","h"," ","h","a","v","e"," ","i"," ","e","a","r","n","e","d">> => fnResult.month = Undefined
    /\ QuestionLower = <<"w","h","a","t"," ","h","a","v","e"," ","i"," ","m","a","d","e"," ","i","n"," ","m","a","y">> => fnResult.month = <<"m","a","y">>

\* C23 witness: "What have I made for JUNE?" asks for june
C23_Witness ==
  /\ fnCalled = "extractEarningsQuery"
  /\ fnArgument.question = <<"W","h","a","t"," ","h","a","v","e"," ","I"," ","m","a","d","e">>
  /\ fnArgument.link = <<" ","f","o","r"," ">>
  /\ fnArgument.word = <<"J","U","N","E">>
  /\ fnArgument.end = <<"?">>
  /\ fnResult.month = <<"j","u","n","e">>


\* ------------------------------------------------------------------------
\* Passes of handleMyloMessage with their failures, interleaved at their
\* awaits of a collaborator
\* ------------------------------------------------------------------------

\* the reply of the catch block of handleEarningsQuery
earningsErrorMessage ==
  <<"u274C">> \o <<" ","S","o","r","r","y",","," ","I"," ","e","n","c","o","u","n","t","e","r","e","d"," ","a","n"," ","e","r","r","o","r"," ","w","h","i","l","e"," ","c","a","l","c","u","l","a","t","i","n","g"," ","y","o","u","r"," ","e","a","r","n","i","n","g","s","."," ","P","l","e","a","s","e"," ","t","r","y"," ","a","g","a","i","n"," ","l","a","t","e","r",".">>

\* what a pass did, in order: ctx.reply(text) with its outcome (delivered,
\* or not delivered because it threw)
ReplyEvent(reply, delivered) ==
  [kind |-> "reply", name |-> "ctx.reply", text |-> reply.text,
   parse_mode |-> reply.parse_mode, delivered |-> delivered]

\* and a call of a collaborator with its argument
CallEvent(name, arg) ==
  [kind |-> "call", name |-> name, text |-> arg, parse_mode |-> "none",
   delivered |-> TRUE]

\* the catch blocks around a statement that threw, innermost first: each
\* sends its reply; when that reply throws too the next catch block is
\* entered, and the rejection leaves handleMyloMessage when none is left.
\* throws tells which of the coming calls of ctx.reply throw.
RECURSIVE catchBlocks(_, _, _)
catchBlocks(log, handlers, throws) ==
  IF handlers = << >> THEN [log |-> log, end |-> "rejected"]
  ELSE IF throws[1]
       THEN catchBlocks(Append(log, ReplyEvent(handlers[1], FALSE)),
                        Tail(handlers), Tail(throws))
  ELSE [log |-> Append(log, ReplyEvent(handlers[1], TRUE)), end |-> "caught"]

\* the statements of a try block up to the next await of a collaborator or
\* to the return, within the catch blocks handlers
RECURSIVE runSteps(_, _, _, _)
runSteps(log, steps, handlers, throws) ==
  IF steps = << >> THEN [log |-> log, end |-> "completed"]
  ELSE IF steps[1].kind = "call"
       THEN runSteps(Append(log, steps[1]), Tail(steps), handlers, throws)
  ELSE IF throws[1]
       THEN catchBlocks(Append(log, [steps[1] EXCEPT !.delivered = FALSE]),
                        handlers, Tail(throws))
  ELSE runSteps(Append(log, steps[1]), Tail(steps), handlers, Tail(throws))

\* the catch block of handleMyloMessage
outerCatch ==
  <<Reply(handlerErrorMessage)>>

\* the catch block of handleEarningsQuery inside that of handleMyloMessage
innerCatch ==
  <<Reply(earningsErrorMessage), Reply(handlerErrorMessage)>>

\* the search branch with its two statements swapped: the call, then the
\* acknowledgement
searchSteps_callFirst(searchQuery) ==
  <<CallEvent("searchPages", searchQuery),
    ReplyEvent(Reply(searchingMessage(searchQuery)), TRUE)>>

\* the search branch up to its await: the acknowledgement, then the call
searchSteps(searchQuery) ==
  <<ReplyEvent(Reply(searchingMessage(searchQuery)), TRUE),
    CallEvent("searchPages", searchQuery)>>

\* the terminal reply of the search branch for what searchPages returned
searchTerminal(response, searchQuery) ==
  IF response.error # Null /\ response.error # << >>
  THEN Reply(searchErrorMessage(response.error))
  ELSE IF Len(response.pages) = 0
  THEN Reply(noPagesMessage(searchQuery))
  ELSE MarkdownReply(searchResultsMessage(response.pages, searchQuery))

\* handleEarningsQuery up to its await of the ledger, or to its return
earningsSteps(username, available, month) ==
  IF ~available
  THEN <<ReplyEvent(Reply(noServiceMessage), TRUE)>>
  ELSE IF username = Undefined \/ username = << >>
  THEN <<ReplyEvent(Reply(noHandleMessage), TRUE)>>
  ELSE <<ReplyEvent(Reply(calculatingMessage(month)), TRUE),
         CallEvent("calculateUserEarnings", username)>>
       \o (IF returnsBeforeFetch(username)
           THEN <<ReplyEvent(MarkdownReply(formatEarningsMessage(earningsBeforeFetch, username)), TRUE)>>
           ELSE <<CallEvent("getTableRecords", TreasuryTable)>>)

\* passStart without the test of searchQuery: the search is made with
\* whatever extractSearchQuery returned
passStart_searchesAnyway(text, username, available, throws) ==
  LET messageText == toLowerCase(text)
      originalText == orElse(text, messageText)
      earningsQuery == extractEarningsQuery(messageText, originalText)
      searchQuery == extractSearchQuery(messageText, originalText)
  IN IF ~earningsQuery.isNull
     THEN runSteps(<< >>, earningsSteps(username, available, earningsQuery.month),
                   innerCatch, throws)
     ELSE runSteps(<< >>, searchSteps(searchQuery), outerCatch, throws)

\* handleMyloMessage from its call to its first await of a collaborator, or
\* to its end: what it did, and how that ended
passStart(text, username, available, throws) ==
  LET messageText == toLowerCase(text)
      originalText == orElse(text, messageText)
      earningsQuery == extractEarningsQuery(messageText, originalText)
      searchQuery == extractSearchQuery(messageText, originalText)
  IN IF ~earningsQuery.isNull
     THEN runSteps(<< >>, earningsSteps(username, available, earningsQuery.month),
                   innerCatch, throws)
     ELSE IF searchQuery = Null \/ searchQuery = << >>
     THEN runSteps(<< >>, <<ReplyEvent(Reply(helpMessage), TRUE)>>, outerCatch, throws)
     ELSE runSteps(<< >>, searchSteps(searchQuery), outerCatch, throws)

\* where a pass is after some statements ran: at the await of the
\* collaborator it called last, at its end, or rejected to its host
pcAfter(run) ==
  IF run.end = "rejected" THEN "rejected"
  ELSE IF run.end = "caught" THEN "done"
  ELSE IF run.log[Len(run.log)].kind = "call"
       THEN IF run.log[Len(run.log)].name = "searchPages" THEN "searching"
            ELSE "calculating"
  ELSE "done"


\* the contexts handleMyloMessage is called with: nothing after the trigger,
\* two searches, and earnings questions from senders with and without a
\* username, with and without an earnings service
PassContexts ==
  { [text |-> <<"H","e","y"," ","M","y","l","o">>, username |-> <<"b","o","b">>, available |-> TRUE],
    [text |-> <<"h","e","y"," ","m","y","l","o"," ","b","a","n","a","n","a">>, username |-> <<"b","o","b">>, available |-> TRUE],
    [text |-> <<"H","e","y"," ","M","y","l","o",","," ","s","e","a","r","c","h"," ","f","o","r"," ","p","r","o","j","e","c","t"," ","d","o","c","s">>, username |-> Undefined, available |-> FALSE],
    [text |-> <<"H","e","y"," ","M","y","l","o",","," ","w","h","a","t"," ","h","a","v","e"," ","I"," ","m","a","d","e"," ","i","n"," ","M","a","y">>, username |-> <<"b","o","b">>, available |-> TRUE],
    [text |-> <<"H","e","y"," ","M","y","l","o",","," ","w","h","a","t"," ","h","a","v","e"," ","I"," ","m","a","d","e"," ","i","n"," ","M","a","y">>, username |-> Undefined, available |-> TRUE],
    [text |-> <<"h","e","y"," ","m","y","l","o"," ","h","o","w"," ","m","u","c","h"," ","h","a","v","e"," ","i"," ","e","a","r","n","e","d">>, username |-> <<"b","o","b">>, available |-> FALSE],
    [text |-> <<"h","e","y"," ","m","y","l","o"," ","h","o","w"," ","m","u","c","h"," ","h","a","v","e"," ","i"," ","e","a","r","n","e","d">>, username |-> Undefined, available |-> FALSE] }

\* what notion.searchPages may return to a pass
PassSearchResponses ==
  { [pages |-> << >>, error |-> <<"F","a","i","l","e","d"," ","t","o"," ","s","e","a","r","c","h"," ","N","o","t","i","o","n"," ","p","a","g","e","s">>],
    [pages |-> << >>, error |-> Null],
    [pages |-> <<PageB, PageA>>, error |-> Null] }

\* which of the coming calls of ctx.reply throw: at most four are made
\* between two awaits of a collaborator, and as soon as one is delivered
\* after a failure the pass is at its end
ReplyFailures ==
  { <<FALSE, FALSE, FALSE, FALSE>>, <<TRUE, FALSE, FALSE, FALSE>>,
    <<TRUE, TRUE, FALSE, FALSE>>, <<TRUE, TRUE, TRUE, FALSE>>,
    <<FALSE, TRUE, FALSE, FALSE>>, <<FALSE, TRUE, TRUE, FALSE>>,
    <<FALSE, TRUE, TRUE, TRUE>> }

\* searchQuery kept in a variable of the module instead of a local one: a
\* pass that is searching at the same time has overwritten it
ownQuery_moduleLevel(p) ==
  IF \E o \in PassIds \ {p} : passes[o].pc = "searching"
  THEN passes[CHOOSE o \in PassIds \ {p} : passes[o].pc = "searching"].searchQuery
  ELSE passes[p].searchQuery

\* the local variable searchQuery of pass p
ownQuery(p) ==
  passes[p].searchQuery

\* the host calls handleMyloMessage for a message: pass p runs to its first
\* await of a collaborator, or to its end
StartPass(p, ctx, throws) ==
  /\ passes[p].pc = "idle"
  /\ LET messageText == toLowerCase(ctx.text)
         originalText == orElse(ctx.text, messageText)
         earningsQuery == extractEarningsQuery(messageText, originalText)
         run == passStart(ctx.text, ctx.username, ctx.available, throws)
     IN passes' = [passes EXCEPT ![p] =
          [pc |-> pcAfter(run), text |-> ctx.text, username |-> ctx.username,
           available |-> ctx.available,
           searchQuery |-> IF earningsQuery.isNull
                           THEN extractSearchQuery(messageText, originalText)
                           ELSE Null,
           month |-> earningsQuery.month, outcome |-> "none",
           response |-> NoSearchResponse, fetched |-> NoResponse,
           log |-> run.log]]
  /\ UNCHANGED <<evars, hvars, cvars, fvars>>

\* SearchPagesReturnsTo with a retry: after an error the search is made again
SearchPagesReturnsTo_retrying(p, response, throws) ==
  /\ passes[p].pc = "searching"
  /\ IF response.error # Null /\ response.error # << >>
     THEN passes' = [passes EXCEPT ![p].log =
                       Append(@, CallEvent("searchPages", passes[p].searchQuery))]
     ELSE LET run == runSteps(passes[p].log,
                              <<ReplyEvent(searchTerminal(response, ownQuery(p)), TRUE)>>,
                              outerCatch, throws)
          IN passes' = [passes EXCEPT ![p].pc = pcAfter(run),
                                      ![p].outcome = "returned",
                                      ![p].response = response,
                                      ![p].log = run.log]
  /\ UNCHANGED <<evars, hvars, cvars, fvars>>

\* notion.searchPages returns to pass p, which runs to its end
SearchPagesReturnsTo(p, response, throws) ==
  /\ passes[p].pc = "searching"
  /\ LET run == runSteps(passes[p].log,
                         <<ReplyEvent(searchTerminal(response, ownQuery(p)), TRUE)>>,
                         outerCatch, throws)
     IN passes' = [passes EXCEPT ![p].pc = pcAfter(run),
                                 ![p].outcome = "returned",
                                 ![p].response = response,
                                 ![p].log = run.log]
  /\ UNCHANGED <<evars, hvars, cvars, fvars>>

\* the await of notion.searchPages rejects in pass p: the catch block of
\* handleMyloMessage is entered
SearchPagesThrowsTo(p, throws) ==
  /\ passes[p].pc = "searching"
  /\ LET run == catchBlocks(passes[p].log, outerCatch, throws)
     IN passes' = [passes EXCEPT ![p].pc = pcAfter(run),
                                 ![p].outcome = "threw",
                                 ![p].log = run.log]
  /\ UNCHANGED <<evars, hvars, cvars, fvars>>

\* getTableRecords returns to the calculateUserEarnings pass p awaits, and
\* pass p runs to its end
GetTableRecordsReturnsTo(p, apiThrows, throws) ==
  /\ passes[p].pc = "calculating"
  /\ \E fetched \in {getTableRecords(TreasuryTable, treasury, apiThrows)} :
     \E result \in {earningsAfterFetch(passes[p].username, passes[p].month, fetched)} :
     \E run \in {runSteps(passes[p].log,
                         <<ReplyEvent(MarkdownReply(formatEarningsMessage(result, passes[p].username)), TRUE)>>,
                         innerCatch, throws)} :
       passes' = [passes EXCEPT ![p].pc = pcAfter(run),
                                 ![p].outcome = IF apiThrows THEN "threw" ELSE "returned",
                                 ![p].fetched = fetched,
                                 ![p].log = run.log]
  /\ UNCHANGED <<evars, hvars, cvars, fvars>>

\* a step of pass p
PassStep(p) ==
  \/ \E ctx \in PassContexts, throws \in ReplyFailures : StartPass(p, ctx, throws)
  \/ \E response \in PassSearchResponses, throws \in ReplyFailures :
       SearchPagesReturnsTo(p, response, throws)
  \/ \E throws \in ReplyFailures : SearchPagesThrowsTo(p, throws)
  \/ \E apiThrows \in BOOLEAN, throws \in ReplyFailures :
       GetTableRecordsReturnsTo(p, apiThrows, throws)

InitPasses ==
  InitWith(PipelineLedgers) /\ NoFunctionCall

\* the passes interleave at their awaits; a collaborator that never answers
\* leaves its pass where it is
NextPasses ==
  \E p \in PassIds : PassStep(p)

SpecPasses ==
  InitPasses /\ [][NextPasses]_vars


\* ------------------------------------------------------------------------
\* Properties of the passes (specification SpecPasses)
\* ------------------------------------------------------------------------

\* how often pass p called the collaborator name
Calls(p, name) ==
  Cardinality({ i \in 1..Len(passes[p].log) :
                  passes[p].log[i].kind = "call" /\ passes[p].log[i].name = name })

\* pass p is over: it returned or it rejected
Ended(p) ==
  passes[p].pc \in {"done", "rejected"}

\* C24: a pass calls notion.searchPages at most once and fetches the ledger
\* at most once; once the collaborator has answered, with an error or by
\* throwing as well, the pass runs to its end without calling it again
C24_NoRetry ==
  \A p \in PassIds :
    /\ Calls(p, "searchPages") <= 1
    /\ Calls(p, "calculateUserEarnings") <= 1
    /\ Calls(p, "getTableRecords") <= 1
    /\ passes[p].outcome # "none" =>
         /\ Ended(p)
         /\ Calls(p, "searchPages") + Calls(p, "getTableRecords") = 1

\* C24 witness: a pass whose search came back with an error and a pass whose
\* ledger fetch threw, both over after their single call
C24_Witness ==
  \E p, q \in PassIds :
    /\ passes[p].outcome = "returned"
    /\ passes[p].response.error = <<"F","a","i","l","e","d"," ","t","o"," ","s","e","a","r","c","h"," ","N","o","t","i","o","n"," ","p","a","g","e","s">>
    /\ Calls(p, "searchPages") = 1
    /\ Ended(p)
    /\ passes[q].outcome = "threw"
    /\ passes[q].fetched.error # Null
    /\ Calls(q, "getTableRecords") = 1
    /\ Ended(q)


\* the apologies pass p delivered
Apologies(p) ==
  Cardinality({ i \in 1..Len(passes[p].log) :
                  /\ passes[p].log[i].kind = "reply"
                  /\ passes[p].log[i].delivered
                  /\ passes[p].log[i].text \in
                       { <<"u274C">> \o <<" ","S","o","r","r","y",","," ","I"," ","e","n","c","o","u","n","t","e","r","e","d"," ","a","n"," ","e","r","r","o","r"," ","w","h","i","l","e"," ","p","r","o","c","e","s","s","i","n","g"," ","y","o","u","r"," ","r","e","q","u","e","s","t","."," ","P","l","e","a","s","e"," ","t","r","y"," ","a","g","a","i","n"," ","l","a","t","e","r",".">>,
                         <<"u274C">> \o <<" ","S","o","r","r","y",","," ","I"," ","e","n","c","o","u","n","t","e","r","e","d"," ","a","n"," ","e","r","r","o","r"," ","w","h","i","l","e"," ","c","a","l","c","u","l","a","t","i","n","g"," ","y","o","u","r"," ","e","a","r","n","i","n","g","s","."," ","P","l","e","a","s","e"," ","t","r","y"," ","a","g","a","i","n"," ","l","a","t","e","r",".">> } })

\* a failure was raised in pass p: a reply threw, or the await of
\* notion.searchPages did
FailureRaised(p) ==
  \/ \E i \in 1..Len(passes[p].log) :
       passes[p].log[i].kind = "reply" /\ ~passes[p].log[i].delivered
  \/ passes[p].outcome = "threw" /\ Calls(p, "searchPages") = 1

\* C25: every failure raised during a pass is caught inside
\* handleMyloMessage and becomes a single apology: a pass never rejects to
\* its host, never delivers more than one apology, and a pass that is over
\* after a failure delivered exactly one
C25_FailuresBecomeOneApology ==
  \A p \in PassIds :
    /\ passes[p].pc # "rejected"
    /\ Apologies(p) <= 1
    /\ (Ended(p) /\ FailureRaised(p)) => Apologies(p) = 1


\* which calls of ctx.reply threw in pass p, in order, followed by calls
\* that do not throw
ThrowsSeen(p) ==
  LET idx == { i \in 1..Len(passes[p].log) : passes[p].log[i].kind = "reply" }
      nth(k) == CHOOSE i \in idx : Cardinality({ j \in idx : j <= i }) = k
  IN [k \in 1..Cardinality(idx) |-> ~passes[p].log[nth(k)].delivered]
     \o <<FALSE, FALSE, FALSE, FALSE>>

\* the calls of ctx.reply in a log
RepliesIn(log) ==
  Cardinality({ i \in 1..Len(log) : log[i].kind = "reply" })

\* what pass p does when it runs alone, from its own context, with the
\* answer its collaborator gave it and the same calls of ctx.reply throwing
Alone(p) ==
  LET me == passes[p]
      messageText == [i \in 1..Len(me.text) |-> LowerChar(me.text[i])]
      query == extractSearchQuery(messageText, me.text)
      month == extractEarningsQuery(messageText, me.text).month
      first == passStart(me.text, me.username, me.available, ThrowsSeen(p))
      rest == SubSeq(ThrowsSeen(p), RepliesIn(first.log) + 1, Len(ThrowsSeen(p)))
  IN IF me.outcome = "none" THEN first
     ELSE IF pcAfter(first) = "searching"
     THEN IF me.outcome = "threw" THEN catchBlocks(first.log, outerCatch, rest)
          ELSE runSteps(first.log,
                        <<ReplyEvent(searchTerminal(me.response, query), TRUE)>>,
                        outerCatch, rest)
     ELSE runSteps(first.log,
                   <<ReplyEvent(MarkdownReply(formatEarningsMessage(
                        earningsAfterFetch(me.username, month, me.fetched), me.username)), TRUE)>>,
                   innerCatch, rest)

\* pass p did so far what it does alone
AsAlone(p) ==
  passes[p].pc # "idle" =>
    /\ passes[p].log = Alone(p).log
    /\ passes[p].pc = pcAfter(Alone(p))

VNums ==
  [t |-> "nums", n |-> 0, s |-> << >>, a |-> << >>]

\* AirtableFieldValueSchema: the union of the accepted field values
AirtableFieldValueSchema(v) ==
  v.t \in {"str", "num", "bool", "arr", "objs", "obj", "none"}

\* a record as the Airtable client hands it to the eachPage callback
RawRecord(id, createdTime, fields) ==
  [id |-> id, createdTime |-> createdTime, fields |-> fields]

\* AirtableRecordSchema: id and createdTime are strings and every field
\* holds an accepted value
AirtableRecordSchema(record) ==
  /\ record.id # Undefined
  /\ record.createdTime # Undefined
  /\ \A k \in DOMAIN record.fields : AirtableFieldValueSchema(record.fields[k])

\* the options of a call: given or left out, their maxRecords key (VNone
\* where the key is absent) and whether they carry a key the schema does
\* not know
QueryOptions(given, maxRecords, unknownKey) ==
  [given |-> given, maxRecords |-> maxRecords, unknownKey |-> unknownKey]

\* AirtableQueryOptionsSchema: a strict object whose maxRecords is a number
AirtableQueryOptionsSchema(options) ==
  /\ ~options.unknownKey
  /\ options.maxRecords.t \in {"none", "num"}

\* the eachPage callback over all pages: the records that pass
\* AirtableRecordSchema are kept in order, the others are skipped
eachPage(pageRecords) ==
  SelectSeq(pageRecords, AirtableRecordSchema)

\* the try block of getTableRecords: how it ends, with what, and whether
\* the Airtable base was contacted; api holds the records Airtable delivers
\* and whether its request then throws
getTableRecordsTry(tableName, options, api) ==
  IF trim(tableName) = << >>
  THEN [end |-> "return", records |-> << >>, error |-> <<"T","a","b","l","e"," ","n","a","m","e"," ","c","a","n","n","o","t"," ","b","e"," ","e","m","p","t","y">>, contacted |-> FALSE]
  ELSE IF options.given /\ ~AirtableQueryOptionsSchema(options)
  THEN [end |-> "throw", records |-> << >>, error |-> Null, contacted |-> FALSE]
  ELSE IF api.throws
  THEN [end |-> "throw", records |-> eachPage(api.delivered), error |-> Null, contacted |-> TRUE]
  ELSE [end |-> "return", records |-> eachPage(api.delivered), error |-> Null, contacted |-> TRUE]

\* the catch block with the exception it rethrows instead of returning
getTableRecordsCatch_rethrows(tableName, tried) ==
  [end |-> "throw", records |-> << >>, error |-> Null, contacted |-> tried.contacted]

\* the catch block of getTableRecords
getTableRecordsCatch(tableName, tried) ==
  [end |-> "return", records |-> << >>,
   error |-> <<"F","a","i","l","e","d"," ","t","o"," ","g","e","t"," ","r","e","c","o","r","d","s"," ","f","r","o","m"," ","t","a","b","l","e",":"," ">> \o tableName,
   contacted |-> tried.contacted]

\* one call of getTableRecords from its first line to its last
getTableRecordsCall(tableName, options, api) ==
  LET tried == getTableRecordsTry(tableName, options, api)
  IN  IF tried.end = "throw" THEN getTableRecordsCatch(tableName, tried) ELSE tried

\* the most records Airtable delivers to one call
MaxDelivered ==
  3

\* the table names of the calls
FetchTableNames ==
  {<< >>, <<" "," ">>, TreasuryTable, <<" ","T"," ">>}

\* the options of the calls
FetchOptions ==
  { QueryOptions(FALSE, VNone, FALSE),
    QueryOptions(TRUE, VNum(100000), FALSE),
    QueryOptions(TRUE, VStr(<<"1","0","0">>), FALSE),
    QueryOptions(TRUE, VNone, TRUE) }

\* the records Airtable delivers: two that pass validation, one without a
\* createdTime and one with a field of an unsupported kind
FetchRawRecords ==
  { RawRecord(<<"r","e","c","A">>, <<"2","0","2","5">>, Record(VStr(<<"@","b","o","b">>), VNum(100000), VStr(<<"U","S","D","C">>), VStr(<<"M","a","y"," ","2","5">>))),
    RawRecord(<<"r","e","c","B">>, <<"2","0","2","5">>, Record(VArr(<< <<"a","l","i","c","e">> >>), VNone, VObjs(1), VBool(TRUE))),
    RawRecord(<<"r","e","c","C">>, Undefined, Record(VStr(<<"@","b","o","b">>), VNum(5000), VStr(<<"U","S","D","C">>), VNone)),
    RawRecord(<<"r","e","c","D">>, <<"2","0","2","5">>, Record(VStr(<<"@","b","o","b">>), VNums, VStr(<<"U","S","D","C">>), VNone)) }

\* what the Airtable API does during a call
FetchApis ==
  [delivered : UNION {[1..n -> FetchRawRecords] : n \in 0..MaxDelivered}, throws : BOOLEAN]

\* before the call: the arguments are chosen
InitFetch ==
  /\ InitWith(PipelineLedgers)
  /\ fnCalled = "none"
  /\ fnArgument \in [tableName : FetchTableNames, options : FetchOptions, api : FetchApis]
  /\ fnResult = << >>

\* the call of getTableRecords
GetTableRecords ==
  /\ fnCalled = "none"
  /\ fnCalled' = "getTableRecords"
  /\ fnResult' = getTableRecordsCall(fnArgument.tableName, fnArgument.options, fnArgument.api)
  /\ UNCHANGED fnArgument
  /\ UNCHANGED <<evars, hvars, cvars, pvars>>

SpecFetch ==
  InitFetch /\ [][GetTableRecords]_vars


\* ------------------------------------------------------------------------
\* Properties of getTableRecords
\* ------------------------------------------------------------------------

\* the delivered records that are well formed, listed by their ids
WellFormedIds ==
  {<<"r","e","c","A">>, <<"r","e","c","B">>}

IsWellFormed(record) ==
  record.id \in WellFormedIds

\* the options the schema accepts: none, or maxRecords as a number
AcceptedOptions ==
  {QueryOptions(FALSE, VNone, FALSE), QueryOptions(TRUE, VNum(100000), FALSE)}

BlankName(tableName) ==
  \A i \in 1..Len(tableName) : tableName[i] = " "

\* the response calculateUserEarnings is given for the same table agrees
\* with the call followed step by step
FetchAgrees ==
  fnCalled = "getTableRecords" /\ fnArgument.options \in AcceptedOptions =>
    getTableRecords(fnArgument.tableName, eachPage(fnArgument.api.delivered), fnArgument.api.throws)
      = [records |-> fnResult.records, error |-> fnResult.error]

\* C27: getTableRecords never throws and returns either records with a
\* null error or no records with an error; a blank table name gives an
\* error without contacting Airtable; an exception of the API or of the
\* option validation gives an error result; a record failing validation is
\* skipped while the call succeeds and keeps the other records in order
C27_GetTableRecordsNeverThrows ==
  fnCalled = "getTableRecords" =>
    /\ fnResult.end = "return"
    /\ \/ fnResult.error = Null
       \/ fnResult.error # Null /\ fnResult.records = << >>
    /\ BlankName(fnArgument.tableName) =>
         fnResult.error # Null /\ ~fnResult.contacted
    /\ (fnArgument.api.throws \/ fnArgument.options \notin AcceptedOptions) =>
         fnResult.error # Null /\ fnResult.records = << >>
    /\ (/\ ~BlankName(fnArgument.tableName)
        /\ ~fnArgument.api.throws
        /\ fnArgument.options \in AcceptedOptions) =>
         /\ fnResult.error = Null
         /\ fnResult.contacted
         /\ fnResult.records = SelectSeq(fnArgument.api.delivered, IsWellFormed)

\* a call that succeeds with two records after skipping an invalid one
\* delivered between them
C27_Witness ==
  /\ fnCalled = "getTableRecords"
  /\ fnArgument.tableName = TreasuryTable
  /\ Len(fnArgument.api.delivered) = 3
  /\ fnArgument.api.delivered[1].id = <<"r","e","c","A">>
  /\ fnArgument.api.delivered[2].id = <<"r","e","c","D">>
  /\ fnArgument.api.delivered[3].id = <<"r","e","c","B">>
  /\ fnResult.error = Null
  /\ Len(fnResult.records) = 2
  /\ fnResult.records[2].id = <<"r","e","c","B">>


\* ------------------------------------------------------------------------
\* Order of the statements of a pass (specification SpecPasses)
\* ------------------------------------------------------------------------

\* the messages of PassContexts that ask for earnings
EarningsTexts ==
  { <<"H","e","y"," ","M","y","l","o",","," ","w","h","a","t"," ","h","a","v","e"," ","I"," ","m","a","d","e"," ","i","n"," ","M","a","y">>, <<"h","e","y"," ","m","y","l","o"," ","h","o","w"," ","m","u","c","h"," ","h","a","v","e"," ","i"," ","e","a","r","n","e","d">> }

\* pass p reached a collaborator
ReachedCollaborator(p) ==
  Calls(p, "searchPages") + Calls(p, "calculateUserEarnings") > 0

\* the delivered replies of pass p
Delivered(p) ==
  Cardinality({ i \in 1..Len(passes[p].log) :
                  passes[p].log[i].kind = "reply" /\ passes[p].log[i].delivered })

\* the search branch of pass p: acknowledgement, call, and nothing more
\* before searchPages has answered; then replies only
SearchOrder(p) ==
  LET log == passes[p].log
  IN Calls(p, "searchPages") = 1 =>
       /\ log[1] = ReplyEvent(Reply(searchingMessage(passes[p].searchQuery)), TRUE)
       /\ log[2] = CallEvent("searchPages", passes[p].searchQuery)
       /\ passes[p].pc = "searching" <=> passes[p].outcome = "none"
       /\ passes[p].outcome = "none" => Len(log) = 2
       /\ \A i \in 3..Len(log) : log[i].kind = "reply"
       /\ (passes[p].outcome = "returned" /\ ~FailureRaised(p)) =>
            /\ Len(log) = 3
            /\ log[3] = ReplyEvent(searchTerminal(passes[p].response, passes[p].searchQuery), TRUE)

\* the earnings branch of pass p: the availability check, the username
\* check, the acknowledgement, the ledger fetch, the summary
EarningsOrder(p) ==
  LET log == passes[p].log
      me == passes[p]
  IN (me.pc # "idle" /\ me.text \in EarningsTexts /\ log[1].delivered) =>
       /\ ~me.available =>
            log = <<ReplyEvent(Reply(noServiceMessage), TRUE)>> /\ me.pc = "done"
       /\ (me.available /\ me.username = Undefined) =>
            log = <<ReplyEvent(Reply(noHandleMessage), TRUE)>> /\ me.pc = "done"
       /\ (me.available /\ me.username # Undefined) =>
            /\ log[1] = ReplyEvent(Reply(calculatingMessage(me.month)), TRUE)
            /\ log[2] = CallEvent("calculateUserEarnings", me.username)
            /\ log[3] = CallEvent("getTableRecords", TreasuryTable)
            /\ me.pc = "calculating" <=> me.outcome = "none"
            /\ me.outcome = "none" => Len(log) = 3
            /\ \A i \in 4..Len(log) : log[i].kind = "reply"
            /\ (me.outcome # "none" /\ ~FailureRaised(p)) =>
                 /\ Len(log) = 4
                 /\ log[4].parse_mode = "Markdown"
                 /\ log[4].delivered

\* C28: in the search branch the acknowledgement is sent before
\* notion.searchPages is called and the terminal reply after it returned; in
\* the earnings branch the availability check precedes the username check,
\* both precede the acknowledgement, which precedes the ledger fetch, which
\* precedes the summary; a pass that reached a collaborator and ended
\* without an exception sent exactly two replies, and a pass that reached a
\* collaborator and returned delivered exactly two
C28_OrderWithinPass ==
  \A p \in PassIds :
    /\ SearchOrder(p)
    /\ EarningsOrder(p)
    /\ (ReachedCollaborator(p) /\ Ended(p) /\ ~FailureRaised(p)) =>
         /\ RepliesIn(passes[p].log) = 2
         /\ passes[p].log[1].kind = "reply"
         /\ passes[p].log[Len(passes[p].log)].kind = "reply"
    /\ (ReachedCollaborator(p) /\ passes[p].pc = "done") => Delivered(p) = 2

\* C28 witness: a search pass and an earnings pass, both over without an
\* exception after their two replies
C28_Witness ==
  \E p, q \in PassIds :
    /\ Calls(p, "searchPages") = 1 /\ Ended(p) /\ ~FailureRaised(p)
    /\ passes[p].outcome = "returned"
    /\ Len(passes[p].response.pages) = 2
    /\ RepliesIn(passes[p].log) = 2
    /\ Calls(q, "getTableRecords") = 1 /\ Ended(q) /\ ~FailureRaised(q)
    /\ passes[q].outcome = "returned"
    /\ RepliesIn(passes[q].log) = 2


\* ------------------------------------------------------------------------
\* handleMyloMessage up to its search, for message texts of every shape
\* ------------------------------------------------------------------------

\* the most pieces a message text is made of
MaxPieces ==
  4

\* the pieces: the trigger alone and with its separators, separators, a line
\* end, words of the templates and another word
TextPieces ==
  { <<"H","e","y"," ","M","y","l","o">>, <<"h","e","y"," ","m","y","l","o",","," ">>, <<" ">>, <<",">>, <<"\n">>, <<"f","i","n","d">>, <<"f","o","r">>, <<"c","a","n"," ","y","o","u">>, <<"x">> }

\* the pieces one after the other
RECURSIVE joinPieces(_)
joinPieces(pieces) ==
  IF pieces = << >> THEN << >> ELSE pieces[1] \o joinPieces(Tail(pieces))

\* the message texts
PieceTexts ==
  { joinPieces(pieces) : pieces \in UNION {[1..n -> TextPieces] : n \in 0..MaxPieces} }

\* before handleMyloMessage is called: the text of the message is chosen
InitPieces ==
  /\ InitWith(PipelineLedgers)
  /\ fnCalled = "none"
  /\ fnArgument \in PieceTexts
  /\ fnResult = << >>

\* handleMyloMessage is called for the text and runs to its first await of
\* a collaborator or to its end; searchQuery is what extractSearchQuery
\* returns for the text
HandleUpToSearch ==
  /\ fnCalled = "none"
  /\ fnCalled' = "handleMyloMessage"
  /\ fnResult' =
       [searchQuery |-> extractSearchQuery(toLowerCase(fnArgument),
                                            orElse(fnArgument, toLowerCase(fnArgument))),
        log |-> passStart(fnArgument, <<"b","o","b">>, TRUE,
                          <<FALSE, FALSE, FALSE, FALSE>>).log]
  /\ UNCHANGED fnArgument
  /\ UNCHANGED <<evars, hvars, cvars, pvars>>

SpecPieces ==
  InitPieces /\ [][HandleUpToSearch]_vars


\* ------------------------------------------------------------------------
\* Properties of the search phrase (specification SpecPieces)
\* ------------------------------------------------------------------------

\* a string with a character that is no white space
NotBlank(s) ==
  /\ s # Null
  /\ \E i \in 1..Len(s) : s[i] \notin {" ", "\n", "\t"}

\* the arguments notion.searchPages was called with
SearchedFor ==
  { fnResult.log[i].text : i \in { j \in 1..Len(fnResult.log) :
      fnResult.log[j].kind = "call" /\ fnResult.log[j].name = "searchPages" } }

\* C29: for every message text the phrase extractSearchQuery returns is null
\* or has a character that is no white space, and neither starts nor ends
\* with white space; notion.searchPages is called with that phrase only, and
\* not at all when it is null
C29_NoBlankSearch ==
  fnCalled = "handleMyloMessage" =>
    /\ fnResult.searchQuery = Null \/ NotBlank(fnResult.searchQuery)
    /\ \A q \in SearchedFor : NotBlank(q) /\ q = fnResult.searchQuery
    /\ fnResult.searchQuery = Null => SearchedFor = {}

\* C29 witness: after the trigger, a template word and separators only one
\* word is left, and the search is made for it
C29_Witness ==
  /\ fnCalled = "handleMyloMessage"
  /\ fnArgument = <<"h","e","y"," ","m","y","l","o",","," ","f","i","n","d"," ","x">>
  /\ fnResult.searchQuery = <<"x">>
  /\ SearchedFor = {<<"x">>}

\* a text of the trigger and separators only: no phrase and no search
C29_WitnessNoPhrase ==
  /\ fnCalled = "handleMyloMessage"
  /\ fnArgument = <<"H","e","y"," ","M","y","l","o",","," ","\n">>
  /\ fnResult.searchQuery = Null
  /\ SearchedFor = {}


\* ------------------------------------------------------------------------
\* Shape of every EarningsResult (specification SpecEarnings)
\* ------------------------------------------------------------------------

\* C30: every EarningsResult calculateUserEarnings returns has totals that
\* are not negative; with an error both totals and totalRecords are 0; with
\* totalRecords 0 both totals are 0
C30_ResultWellFormed ==
  epc = "returned" =>
    /\ lastResult.usdcTotal >= 0
    /\ lastResult.tokenTotal >= 0
    /\ lastResult.totalRecords >= 0
    /\ lastResult.error # Null =>
         /\ lastResult.usdcTotal = 0
         /\ lastResult.tokenTotal = 0
         /\ lastResult.totalRecords = 0
    /\ lastResult.totalRecords = 0 =>
         /\ lastResult.usdcTotal = 0
         /\ lastResult.tokenTotal = 0

\* C30 witness: the only record of the user left by the filters holds a
\* negative payout: it is counted and credits nothing
C30_Witness ==
  /\ epc = "returned"
  /\ callHandle = <<"a","l","i","c","e">>
  /\ callMonth = Undefined
  /\ \E i \in 1..Len(treasury) :
       /\ treasury[i].Payout = VStr(<<"-","5">>)
       /\ treasury[i].Currency = VStr(<<"T","O","K","E","N","S">>)
  /\ lastResult.error = Null
  /\ lastResult.totalRecords = 1
  /\ lastResult.usdcTotal = 0
  /\ lastResult.tokenTotal = 0

\* a call that failed after one that succeeded with credited records
C30_WitnessError ==
  /\ epc = "returned"
  /\ prevCall.result.usdcTotal > 0
  /\ lastResult.error # Null
  /\ lastResult.error # Undefined
  /\ lastResult.totalRecords = 0

====
